---- MODULE Spec2Model ----
(***************************************************************************)
(* Task-bridging and event-relay subsystem of caser-deep-agent:            *)
(*   BaseTaskStreamingService (streamObservable / streamTask /            *)
(*   streamEvents), StreamEventEmitter and ParallelSseService             *)
(*   (streamParallelEvents with its timer, handleEvent and processStream). *)
(*                                                                         *)
(* One JavaScript callback (a macrotask together with the microtasks it    *)
(* queues) is one action.  The wire is a sequence of byte symbols: the     *)
(* prefixes "event: " and "data: ", the newline, a JSON text up to its     *)
(* closing brace and that brace are one symbol each, and the two bytes of  *)
(* a UTF-8 encoded e-acute are two symbols, so that a chunk boundary can   *)
(* fall inside a line, inside a JSON text and inside a multibyte           *)
(* character.                                                              *)
(***************************************************************************)
EXTENDS Integers, Sequences, FiniteSets, TLC

\* ---------------------------------------------------------------- bounds
\* Largest number of bytes of one event feed.
MaxBytes == 11

\* ------------------------------------------------------------ byte level
NL == "\n"
EventPrefix == "event: "
DataPrefix == "data: "
LeadByte == "0xC3"
ContByte == "0xA9"
Replacement == "U+FFFD"
Whitespace == {" ", "\r", "\t"}

StateType == <<"task_run.state">>
ProgressType == <<"task_run.progress_msg">>
MessageType == <<"message">>

\* JSON texts of the state events, up to their closing brace.
DocCompletedRunX == "{\"run\":{\"status\":\"completed\",\"output\":\"X\"}"
DocCompletedTopX == "{\"run\":{\"status\":\"completed\"},\"output\":\"X\""
DocCompletedTopNull == "{\"run\":{\"status\":\"completed\"},\"output\":null"
DocFailedBoom == "{\"run\":{\"status\":\"failed\",\"error\":\"boom\"}"
DocFailedNoError == "{\"run\":{\"status\":\"failed\"}"
DocRunning == "{\"run\":{\"status\":\"running\"}"
Docs ==
  {DocCompletedRunX, DocCompletedTopX, DocCompletedTopNull,
   DocFailedBoom, DocFailedNoError, DocRunning}
MsgOpen == "{\"message\":\""
MsgClose == "\"}"

\* The parsed value of a JSON document: data.run?.status, data.run?.output,
\* data.run?.error, data.output and data.message, "undefined" when absent.
NoData ==
  [status |-> "undefined", runOutput |-> "undefined", runError |-> "undefined",
   output |-> "undefined", message |-> <<>>]

DocValue(d) ==
  CASE d = DocCompletedRunX ->
         [NoData EXCEPT !.status = "completed", !.runOutput = "X"]
    [] d = DocCompletedTopX ->
         [NoData EXCEPT !.status = "completed", !.output = "X"]
    [] d = DocCompletedTopNull ->
         [NoData EXCEPT !.status = "completed", !.output = "null"]
    [] d = DocFailedBoom ->
         [NoData EXCEPT !.status = "failed", !.runError = "boom"]
    [] d = DocFailedNoError -> [NoData EXCEPT !.status = "failed"]
    [] OTHER -> [NoData EXCEPT !.status = "running"]

\* The feed lines the remote service sends (without their "\n").
EventLines ==
  { <<EventPrefix>> \o StateType, <<EventPrefix>> \o ProgressType }

DataLines ==
  { <<DataPrefix, DocCompletedRunX, "}">>,
    <<DataPrefix, DocCompletedTopX, "}">>,
    <<DataPrefix, DocCompletedTopNull, "}">>,
    <<DataPrefix, DocFailedBoom, "}">>,
    <<DataPrefix, DocFailedNoError, "}">>,
    <<DataPrefix, DocRunning, "}">>,
    <<DataPrefix, MsgOpen, LeadByte, ContByte, MsgClose>>,
    <<DataPrefix, DocRunning>> }

\* A line, or a data line with the blank line that ends its event.
Blocks == EventLines \cup DataLines \cup {l \o <<NL>> : l \in DataLines}

RECURSIVE FeedsUpTo(_)
\* Every feed of at most n bytes: terminated blocks, then possibly one line
\* that the remote never terminated.
FeedsUpTo(n) ==
  {<<>>} \cup {l \in EventLines \cup DataLines : Len(l) <= n}
  \cup UNION { { b \o <<NL>> \o f : f \in FeedsUpTo(n - Len(b) - 1) } :
               b \in {x \in Blocks : Len(x) + 1 <= n} }

Feeds == FeedsUpTo(MaxBytes)

\* ------------------------------------------------ TextDecoder (stream:true)
RECURSIVE Decode(_, _, _)
\* decoder.decode(value, {stream: true}): an incomplete multibyte sequence at
\* the end of a chunk is kept in the decoder, not emitted.
Decode(pending, bytes, out) ==
  IF bytes = <<>> THEN [chars |-> out, pending |-> pending]
  ELSE LET b == Head(bytes)
           flushed == IF pending = <<>> THEN out ELSE Append(out, Replacement)
       IN  IF b = LeadByte THEN Decode(<<LeadByte>>, Tail(bytes), flushed)
           ELSE IF b = ContByte
             THEN IF pending = <<LeadByte>>
                    THEN Decode(<<>>, Tail(bytes), Append(out, "é"))
                    ELSE Decode(<<>>, Tail(bytes), Append(out, Replacement))
             ELSE Decode(<<>>, Tail(bytes), Append(flushed, b))

\* ------------------------------------------------------- string helpers
RECURSIVE Split(_, _, _)
\* buffer.split('\n'): the pieces between the newlines; the last piece is
\* what follows the last newline.
Split(s, cur, acc) ==
  IF s = <<>> THEN Append(acc, cur)
  ELSE IF Head(s) = NL THEN Split(Tail(s), <<>>, Append(acc, cur))
       ELSE Split(Tail(s), Append(cur, Head(s)), acc)

RECURSIVE TrimStart(_)
TrimStart(s) ==
  IF s # <<>> /\ Head(s) \in Whitespace THEN TrimStart(Tail(s)) ELSE s

RECURSIVE TrimEnd(_)
TrimEnd(s) ==
  IF s # <<>> /\ s[Len(s)] \in Whitespace
    THEN TrimEnd(SubSeq(s, 1, Len(s) - 1)) ELSE s

\* String.prototype.trim
Trim(s) == TrimEnd(TrimStart(s))

\* line.startsWith(prefix), the prefix being one symbol of the wire
StartsWith(line, prefix) == line # <<>> /\ Head(line) = prefix

\* JSON.parse(text): ok is FALSE where JSON.parse throws a SyntaxError.
JSONParse(text) ==
  LET t == Trim(text)
  IN  IF Len(t) = 2 /\ t[1] \in Docs /\ t[2] = "}"
        THEN [ok |-> TRUE, data |-> DocValue(t[1])]
      ELSE IF Len(t) >= 2 /\ t[1] = MsgOpen /\ t[Len(t)] = MsgClose
              /\ \A i \in 2..(Len(t) - 1) : t[i] \in {"é", Replacement}
        THEN [ok |-> TRUE,
              data |-> [NoData EXCEPT !.message = SubSeq(t, 2, Len(t) - 1)]]
      ELSE [ok |-> FALSE, data |-> NoData]

\* JSON.stringify({type, data}) of StreamEventEmitter.emitEvent
Stringify(type, data) == <<"{", "type", type, "data", data, "}">>


\* ------------------------------------------------------------ the sink
NoError == [name |-> "", message |-> ""]
PlainError(msg) == [name |-> "Error", message |-> msg]

Config == [query |-> "q", processor |-> "core", includeAnalysis |-> TRUE]
ConnectedMessage == "Connected, starting deep research..."
CompletionMessage == "Deep research completed successfully"

\* StreamEventEmitter.emitEvent: observer.next({data: JSON.stringify(..)})
EmitEvent(snk, type, data) ==
  Append(snk, [op |-> "next", data |-> Stringify(type, data), err |-> NoError])

\* StreamEventEmitter.emitConnected
EmitConnected(snk, message, config) ==
  EmitEvent(snk, <<"connected">>, [message |-> message, config |-> config])

\* StreamEventEmitter.emitComplete
EmitComplete(snk, message) ==
  EmitEvent(snk, <<"complete">>, [message |-> message])

\* StreamEventEmitter.emitError
EmitError(snk, errorMessage) ==
  EmitEvent(snk, <<"error">>, [error |-> errorMessage])

\* StreamEventEmitter.complete: observer.complete()
EmitterComplete(snk) ==
  Append(snk, [op |-> "complete", data |-> <<>>, err |-> NoError])

\* StreamEventEmitter.error: observer.error(error)
EmitterError(snk, error) ==
  Append(snk, [op |-> "error", data |-> <<>>, err |-> error])

\* streamTask, the statements after the awaited relay: emitComplete, complete
StreamTaskSuccess(snk) ==
  EmitterComplete(EmitComplete(snk, CompletionMessage))

\* Mutant of StreamTaskCatch: error() always gets a new StreamingError.
StreamTaskCatch_Generic(snk, error) ==
  EmitterError(EmitError(snk, error.message),
               [name |-> "StreamingError", message |-> "Streaming error"])

\* Mutant of StreamTaskCatch: the error event never carries the message.
StreamTaskCatch_UnknownMessage(snk, error) ==
  EmitterError(EmitError(snk, "Unknown error"), error)

\* Mutant of StreamTaskCatch: the error event is sent, error() is not called.
StreamTaskCatch_NoTerminal(snk, error) == EmitError(snk, error.message)

\* streamTask, the catch block: emitError(errorMessage), error(error)
StreamTaskCatch(snk, error) ==
  EmitterError(EmitError(snk, error.message), error)

\* Mutant of OnEvent: state events that report "running" are not forwarded.
OnEvent_DropsRunning(snk, event) ==
  IF event.type = <<"task_run.state">> /\ event.data.status = "running"
    THEN snk ELSE EmitEvent(snk, event.type, event.data)

\* streamEvents, the callback handed to the relay: emitEvent(type, data)
OnEvent(snk, event) == EmitEvent(snk, event.type, event.data)

\* ----------------------------------------------------------- the relay
NoResult == [isNull |-> TRUE, output |-> "undefined", run |-> NoData,
             status |-> "undefined"]
PendingPromise ==
  [state |-> "pending", result |-> NoResult, error |-> NoError,
   by |-> "none", at |-> 0]

TimeoutMessage == "Stream timeout after 10 minutes"
StreamEndedMessage == "Stream ended without result"

\* clearTimeout(timeoutId): no effect on a timer that fired or was cleared
ClearTimeout(t) == IF t = "armed" THEN "cleared" ELSE t

\* resolve(value) of the subscription's promise: only the first call of
\* resolve or reject settles it; by and at record which callback settled it
\* and how many events had been handed to onEvent by then.
Resolve(st, value, by) ==
  [st EXCEPT !.settleCalls = @ + 1,
             !.promise = IF @.state = "pending"
                           THEN [state |-> "resolved", result |-> value,
                                 error |-> NoError, by |-> by,
                                 at |-> Len(st.delivered)]
                           ELSE @]

\* reject(error) of the subscription's promise
Reject(st, error, by) ==
  [st EXCEPT !.settleCalls = @ + 1,
             !.promise = IF @.state = "pending"
                           THEN [state |-> "rejected", result |-> NoResult,
                                 error |-> error, by |-> by,
                                 at |-> Len(st.delivered)]
                           ELSE @]

\* handleEvent, completed branch (data.run?.status === 'completed' &&
\* data.output !== null): data.output is the top-level field of the payload.
HandleCompleted(st, data) ==
  LET fr == [isNull |-> FALSE, output |-> data.output, run |-> data,
             status |-> "completed"]
      s1 == [st EXCEPT !.finalResult = fr]
  IN  IF ~s1.hasCompleted
        THEN Resolve([s1 EXCEPT !.hasCompleted = TRUE,
                                !.timeoutId = ClearTimeout(@)], fr, "event")
        ELSE s1

\* Mutant of HandleFailed: the has-completed flag is not consulted.
HandleFailed_Unguarded(st, data) ==
  LET errorMsg == IF data.runError \in {"undefined", "null", ""}
                    THEN "Task failed" ELSE data.runError
  IN  Reject([st EXCEPT !.hasCompleted = TRUE, !.timeoutId = ClearTimeout(@)],
             PlainError(errorMsg), "event")

\* Mutant of HandleFailed: the embedded error is not used for the message.
HandleFailed_GenericMessage(st, data) ==
  IF ~st.hasCompleted
    THEN Reject([st EXCEPT !.hasCompleted = TRUE,
                           !.timeoutId = ClearTimeout(@)],
                PlainError("Task failed"), "event")
    ELSE st

\* handleEvent, failed branch
HandleFailed(st, data) ==
  IF ~st.hasCompleted
    THEN LET errorMsg == IF data.runError \in {"undefined", "null", ""}
                           THEN "Task failed" ELSE data.runError
         IN  Reject([st EXCEPT !.hasCompleted = TRUE,
                               !.timeoutId = ClearTimeout(@)],
                    PlainError(errorMsg), "event")
    ELSE st

\* The onEvent callback of streamEvents: it throws on no event.
NeverThrows == {}

\* The onEvent callback of the subscription throws on this event: a
\* callback is given by the statuses of the events it throws on.
Throws(st, event) == event.data.status \in st.onEventThrows

\* Mutant of HandleEvent: the terminal state is looked at before onEvent is
\* called.
HandleEvent_DetectsFirst(st, eventType, data) ==
  LET event == [type |-> eventType, data |-> data]
      s0 == [st EXCEPT !.eventCount = @ + 1,
                       !.delivered = Append(@, event)]
      s1 == IF Throws(st, event) THEN s0
            ELSE [s0 EXCEPT !.sink = OnEvent(@, event)]
  IN  IF eventType = StateType
        THEN IF data.status = "completed" /\ data.output # "null"
               THEN HandleCompleted(s1, data)
             ELSE IF data.status = "failed" THEN HandleFailed(s1, data)
             ELSE s1
        ELSE s1

\* handleEvent(eventType, data): an exception of onEvent leaves it before
\* the state of the run is looked at.
HandleEvent(st, eventType, data) ==
  LET event == [type |-> eventType, data |-> data]
      s0 == [st EXCEPT !.eventCount = @ + 1,
                       !.delivered = Append(@, event)]
      s1 == [s0 EXCEPT !.sink = OnEvent(@, event)]
  IN  IF Throws(st, event) THEN s0
      ELSE IF eventType = StateType
        THEN IF data.status = "completed" /\ data.output # "null"
               THEN HandleCompleted(s1, data)
             ELSE IF data.status = "failed" THEN HandleFailed(s1, data)
             ELSE s1
        ELSE s1

\* Mutant of ProcessLine: a JSON syntax error escapes to the catch of the read
\* promise and rejects the subscription.
ProcessLine_AbortOnBadJson(st, line) ==
  IF Trim(line) = <<>> THEN st
  ELSE IF StartsWith(line, EventPrefix)
    THEN [st EXCEPT !.currentEventType = Trim(Tail(line))]
  ELSE IF StartsWith(line, DataPrefix)
    THEN LET parsed == JSONParse(Tail(line))
         IN  IF parsed.ok THEN HandleEvent(st, st.currentEventType, parsed.data)
             ELSE IF ~st.hasCompleted
               THEN Reject([st EXCEPT !.hasCompleted = TRUE,
                                      !.timeoutId = ClearTimeout(@)],
                           [name |-> "SyntaxError", message |-> "Unexpected end"],
                           "readError")
               ELSE st
  ELSE st

\* Mutant of ProcessLine: the event type is reset to 'message' once a data
\* line was handled and on a blank line, as an SSE client would.
ProcessLine_ResetsType(st, line) ==
  IF Trim(line) = <<>> THEN [st EXCEPT !.currentEventType = MessageType]
  ELSE IF StartsWith(line, EventPrefix)
    THEN [st EXCEPT !.currentEventType = Trim(Tail(line))]
  ELSE IF StartsWith(line, DataPrefix)
    THEN LET parsed == JSONParse(Tail(line))
             s1 == IF parsed.ok
                     THEN HandleEvent(st, st.currentEventType, parsed.data)
                     ELSE st
         IN  [s1 EXCEPT !.currentEventType = MessageType]
  ELSE st

\* processStream, the body of the loop over the complete lines
ProcessLine(st, line) ==
  IF Trim(line) = <<>> THEN st
  ELSE IF StartsWith(line, EventPrefix)
    THEN [st EXCEPT !.currentEventType = Trim(Tail(line))]
  ELSE IF StartsWith(line, DataPrefix)
    THEN LET parsed == JSONParse(Tail(line))
         IN  IF parsed.ok THEN HandleEvent(st, st.currentEventType, parsed.data)
             ELSE st
  ELSE st

RECURSIVE ProcessLines(_, _)
\* processStream, for (const line of lines)
ProcessLines(st, lines) ==
  IF lines = <<>> THEN st
  ELSE ProcessLines(ProcessLine(st, Head(lines)), Tail(lines))

\* processStream, a read that delivered a chunk: decode, split, keep the
\* incomplete last line in the buffer, handle the complete lines.
ProcessChunk(st, chunk) ==
  LET dec == Decode(st.decoderPending, chunk, <<>>)
      lines == Split(st.buffer \o dec.chars, <<>>, <<>>)
      s1 == [st EXCEPT !.decoderPending = dec.pending,
                       !.buffer = lines[Len(lines)]]
  IN  ProcessLines(s1, SubSeq(lines, 1, Len(lines) - 1))

\* Mutant of ProcessDone: the timer is cleared but the promise is not rejected.
ProcessDone_NoReject(st) ==
  IF st.finalResult.isNull /\ ~st.hasCompleted
    THEN [st EXCEPT !.timeoutId = ClearTimeout(@)]
    ELSE st

\* Mutant of ProcessDone: the end of the stream is reported as a timeout.
ProcessDone_AsTimeout(st) ==
  IF st.finalResult.isNull /\ ~st.hasCompleted
    THEN Reject([st EXCEPT !.timeoutId = ClearTimeout(@)],
                PlainError(TimeoutMessage), "done")
    ELSE st

\* Mutant of ProcessDone: the unterminated last line is handled as a line
\* before the end of the stream is looked at.
ProcessDone_FlushesBuffer(st) ==
  LET s1 == ProcessLine([st EXCEPT !.buffer = <<>>], st.buffer)
  IN  IF s1.finalResult.isNull /\ ~s1.hasCompleted
        THEN Reject([s1 EXCEPT !.timeoutId = ClearTimeout(@)],
                    PlainError(StreamEndedMessage), "done")
        ELSE s1

\* processStream, a read that reported done
ProcessDone(st) ==
  IF st.finalResult.isNull /\ ~st.hasCompleted
    THEN Reject([st EXCEPT !.timeoutId = ClearTimeout(@)],
                PlainError(StreamEndedMessage), "done")
    ELSE st

\* Mutant of ProcessReadError: the promise is rejected, the timer is kept.
ProcessReadError_KeepsTimer(st, error) ==
  IF ~st.hasCompleted
    THEN Reject([st EXCEPT !.hasCompleted = TRUE], error, "readError")
    ELSE st

\* processStream, the catch of the read promise
ProcessReadError(st, error) ==
  IF ~st.hasCompleted
    THEN Reject([st EXCEPT !.hasCompleted = TRUE,
                           !.timeoutId = ClearTimeout(@)], error, "readError")
    ELSE st

\* setTimeout(..., 600000): the wait of the relay, in seconds
StreamTimeoutSeconds == 600

\* "The server sends keep-alive pings every 30 seconds"
KeepAliveSeconds == 30

\* the callback of setTimeout(..., 600000)
TimeoutCallback(st) ==
  LET s1 == [st EXCEPT !.timeoutId = "fired"]
  IN  IF ~s1.hasCompleted
        THEN Reject([s1 EXCEPT !.hasCompleted = TRUE],
                    PlainError(TimeoutMessage), "timer")
        ELSE s1

\* Mutant of FetchCatch: the timer is cleared, the promise is left pending.
FetchCatch_Swallows(st, error) == [st EXCEPT !.timeoutId = ClearTimeout(@)]

\* the catch of the fetch promise: non-success status, null body, fetch error
FetchCatch(st, error) ==
  LET s1 == [st EXCEPT !.timeoutId = ClearTimeout(@)]
  IN  IF ~s1.hasCompleted
        THEN Reject([s1 EXCEPT !.hasCompleted = TRUE], error, "fetch")
        ELSE s1

\* the executor of the subscription's promise up to the call of fetch
Subscribe(st, haveKey) ==
  IF ~haveKey
    THEN Reject(st, PlainError("PARALLEL_API_KEY is not set"), "credential")
    ELSE [st EXCEPT !.hasCompleted = FALSE, !.timeoutId = "armed",
                    !.finalResult = NoResult, !.eventCount = 0]


\* ---------------------------------------------------------- createTask
\* What the task-runs endpoint can answer to the POST of createTask.
NoResponse ==
  [kind |-> "none", ok |-> FALSE, status |-> 0, statusText |-> "",
   body |-> "", json |-> FALSE, run_id |-> "undefined"]
TransportFailure == [NoResponse EXCEPT !.kind = "transport"]
HttpResponse(status, statusText, body) ==
  [NoResponse EXCEPT !.kind = "http", !.status = status,
                     !.statusText = statusText, !.body = body]
Success(run_id) ==
  [NoResponse EXCEPT !.kind = "http", !.ok = TRUE, !.status = 200,
                     !.statusText = "OK", !.json = TRUE, !.run_id = run_id]
CreateResponses ==
  { TransportFailure,
    HttpResponse(500, "Internal Server Error", "oops"),
    HttpResponse(429, "Too Many Requests", "slow down"),
    [Success("undefined") EXCEPT !.json = FALSE],
    Success("undefined"), Success(""), Success("run1") }

\* What the file logger does when createTask uses it: there is none, both
\* writes succeed, the creation of the log file fails, the append fails.
LoggerOutcomes == {"absent", "ok", "createRunLogFails", "appendFails"}

\* ParallelTaskService.getApiKey, the error it throws
ConfigurationError ==
  [name |-> "ConfigurationError",
   message |-> "PARALLEL_API_KEY environment variable is not set"]

TaskCreationError(msg) == [name |-> "TaskCreationError", message |-> msg]

\* `Failed to create task: ${status} ${statusText} - ${errorText}`
FailedMessage(response) ==
  CASE response.status = 500 ->
         "Failed to create task: 500 Internal Server Error - oops"
    [] response.status = 429 ->
         "Failed to create task: 429 Too Many Requests - slow down"

\* `Unexpected error creating task: ${errorMessage}`
UnexpectedMessage(errorMessage) ==
  CASE errorMessage = "fetch failed" ->
         "Unexpected error creating task: fetch failed"
    [] errorMessage = "Unexpected token < in JSON" ->
         "Unexpected error creating task: Unexpected token < in JSON"
    [] errorMessage = "ENOSPC: no space left on device" ->
         "Unexpected error creating task: ENOSPC: no space left on device"
    [] errorMessage = ConfigurationError.message ->
         "Unexpected error creating task: PARALLEL_API_KEY environment variable is not set"

\* The outcome of a call: a run id, or an error with its statusCode
\* (0 stands for undefined).  logThrown: createRunLog threw into createTask.
Returned(id) ==
  [ok |-> TRUE, runId |-> id, error |-> NoError, statusCode |-> 0,
   logThrown |-> FALSE]
Thrown(error, statusCode) ==
  [ok |-> FALSE, runId |-> "", error |-> error, statusCode |-> statusCode,
   logThrown |-> FALSE]

\* FileLoggerService.createRunLog rethrows what the file system raised;
\* logTaskCreation goes through logEvent, which catches and only warns.
FileLogging(logging, id) ==
  IF logging = "createRunLogFails"
    THEN [Thrown(PlainError("ENOSPC: no space left on device"), 0)
            EXCEPT !.logThrown = TRUE]
    ELSE Returned(id)

\* createTask, the try block
CreateTaskTry(response, logging) ==
  IF response.kind = "transport"
    THEN Thrown([name |-> "TypeError", message |-> "fetch failed"], 0)
  ELSE IF ~response.ok
    THEN Thrown(TaskCreationError(FailedMessage(response)), response.status)
  ELSE IF ~response.json
    THEN Thrown([name |-> "SyntaxError",
                 message |-> "Unexpected token < in JSON"], 0)
  ELSE IF response.run_id \in {"undefined", "null", ""}
    THEN Thrown(TaskCreationError("Failed to create task: No run ID returned"),
                0)
  ELSE IF logging # "absent"
    THEN FileLogging(logging, response.run_id)
  ELSE Returned(response.run_id)

\* Mutant of CreateTaskCatch: every error is rethrown as it is.
CreateTaskCatch_Rethrows(r) == r

\* createTask, the catch block
CreateTaskCatch(r) ==
  IF r.ok \/ r.error.name = "TaskCreationError" THEN r
  ELSE [r EXCEPT !.error = TaskCreationError(UnexpectedMessage(@.message)),
                 !.statusCode = 0]

\* Mutant of CreateTask: the credential is read inside the try block, so
\* its absence is reported as a wrapped TaskCreationError.
CreateTask_KeyInsideTry(haveKey, response, logging) ==
  IF ~haveKey THEN CreateTaskCatch(Thrown(ConfigurationError, 0))
  ELSE CreateTaskCatch(CreateTaskTry(response, logging))

\* ParallelTaskService.createTask: getApiKey runs before the try block.
CreateTask(haveKey, response, logging) ==
  IF ~haveKey THEN Thrown(ConfigurationError, 0)
  ELSE CreateTaskCatch(CreateTaskTry(response, logging))

\* The errors createTask can throw when the credential is configured.
CreateFailures ==
  { CreateTask(TRUE, response, logging).error :
      <<response, logging>> \in
        { x \in CreateResponses \X LoggerOutcomes :
            ~CreateTask(TRUE, x[1], x[2]).ok } }

\* createTask, fetch(PARALLEL_API_ENDPOINTS.TASK_RUNS, {method: 'POST', ..})
PostTaskRun(n) == n + 1

\* The record of the calls of createTask in this run.
NoCreation ==
  [calls |-> 0, requests |-> 0, response |-> NoResponse, ok |-> FALSE,
   runId |-> "", error |-> NoError, statusCode |-> 0, logThrown |-> FALSE]

Settled(c, response, r) ==
  [c EXCEPT !.response = response, !.ok = r.ok, !.runId = r.runId,
            !.error = r.error, !.statusCode = r.statusCode,
            !.logThrown = r.logThrown]

\* The record of the calls of streamParallelEvents in this run.
NoSubscription == [calls |-> 0, connections |-> 0, runId |-> "none",
                   sinkLen |-> 0]

\* streamEvents: sseService.streamParallelEvents(runId, callback, metadata)
StreamEvents(sub, id, snk) ==
  [sub EXCEPT !.calls = @ + 1, !.runId = id, !.sinkLen = Len(snk)]

\* Mutant of StartFetch: the connection is attempted twice.
StartFetch_Twice(sub) == [sub EXCEPT !.connections = @ + 2]

\* streamParallelEvents, fetch(url, {headers})
StartFetch(sub) == [sub EXCEPT !.connections = @ + 1]

\* Mutant of ConnectAndSubscribe: the relay is subscribed before the
\* 'connected' event is emitted.
ConnectAndSubscribe_SubscribeFirst(st, sub, id, haveKey) ==
  LET s2 == Subscribe(st, haveKey)
      u1 == StreamEvents(sub, id, st.sink)
  IN  [st |-> [s2 EXCEPT !.sink = EmitConnected(@, ConnectedMessage, Config)],
       sub |-> IF s2.timeoutId = "armed" THEN StartFetch(u1) ELSE u1]

\* streamTask, after createTask returned: emitConnected, then streamEvents
\* calls streamParallelEvents, which arms the timer and starts the fetch.
ConnectAndSubscribe(st, sub, id, haveKey) ==
  LET s1 == [st EXCEPT !.sink = EmitConnected(@, ConnectedMessage, Config)]
      s2 == Subscribe(s1, haveKey)
      u1 == StreamEvents(sub, id, s1.sink)
  IN  [st |-> s2,
       sub |-> IF s2.timeoutId = "armed" THEN StartFetch(u1) ELSE u1]


\* --------------------------------------------------- pollFindAllStatus
\* The greatest max_wait_seconds tried; findAllResultsTool passes
\* Math.floor(max_wait_seconds) as maxAttempts and 1000 ms as interval.
MaxAttempts == 3

\* A status document: status.status?.status and status.status?.is_active;
\* "undefined" stands for an absent field, NullStatus for null.
StatusDoc(s, a) == [isNull |-> FALSE, status |-> s, is_active |-> a]
NullStatus == [isNull |-> TRUE, status |-> "undefined",
               is_active |-> "undefined"]
StatusDocs ==
  { StatusDoc("running", "true"), StatusDoc("running", "false"),
    StatusDoc("queued", "true"), StatusDoc("completed", "true"),
    StatusDoc("failed", "false"), StatusDoc("undefined", "undefined") }

\* makeRequest('/runs/<id>'): it throws (no credential, transport error,
\* non-success status) or returns the parsed body, which can be null.
RequestFailed == [ok |-> FALSE, doc |-> NullStatus]
PollOutcomes ==
  {RequestFailed} \cup {[ok |-> TRUE, doc |-> d] : d \in StatusDocs \cup {NullStatus}}

NoPoller ==
  [pc |-> "none", maxAttempts |-> 0, i |-> 0, lastStatus |-> NullStatus,
   result |-> NullStatus, fetches |-> 0, history |-> <<>>]

\* Mutant of IsCompleted: the is_active flag is not consulted.
IsCompleted_IgnoresActive(status) == status.status \in {"completed", "failed"}

\* pollFindAllStatus, const isCompleted = ...
IsCompleted(status) ==
  \/ status.status = "completed"
  \/ status.status = "failed"
  \/ status.is_active = "false"

\* pollFindAllStatus, return
PollReturn(p, value) == [p EXCEPT !.pc = "returned", !.result = value]

\* pollFindAllStatus, the head of the for loop and the call of makeRequest
PollIterate(p) ==
  IF p.i < p.maxAttempts
    THEN [p EXCEPT !.pc = "fetching", !.fetches = @ + 1]
    ELSE PollReturn(p, p.lastStatus)

\* Mutant of PollCatch: the error of the last attempt is thrown.
PollCatch_ThrowsOnLast(p) ==
  IF p.i = p.maxAttempts - 1
    THEN [p EXCEPT !.pc = "rejected"]
    ELSE [p EXCEPT !.pc = "waiting"]

\* pollFindAllStatus, the catch block
PollCatch(p) ==
  IF p.i = p.maxAttempts - 1
    THEN PollReturn(p, p.lastStatus)
    ELSE [p EXCEPT !.pc = "waiting"]

\* pollFindAllStatus, the try block after makeRequest returned; reading a
\* field of null throws into the catch block.
PollTry(p, status) ==
  LET p1 == [p EXCEPT !.lastStatus = status]
  IN  IF status.isNull THEN PollCatch(p1)
      ELSE IF IsCompleted(status) THEN PollReturn(p1, status)
      ELSE IF p1.i < p1.maxAttempts - 1 THEN [p1 EXCEPT !.pc = "waiting"]
      ELSE PollIterate([p1 EXCEPT !.i = @ + 1])

\* pollFindAllStatus, after the awaited setTimeout: i++ and the loop head
PollAfterWait(p) == PollIterate([p EXCEPT !.i = @ + 1])

\* ------------------------------------- FindAllStreamingService, polling
\* The greatest maxWaitSeconds tried, and the waits tried.
MaxWaitSeconds == 9
WaitChoices == {0, 3, MaxWaitSeconds}

\* const pollInterval = 2000, in seconds
PollInterval == 2

\* How long a status request can take, in seconds.
RequestDurations == {0, 1}

\* The status documents the polls can meet.
PolledDocs ==
  { StatusDoc("running", "true"), StatusDoc("queued", "true"),
    StatusDoc("undefined", "undefined"), StatusDoc("running", "false"),
    StatusDoc("completed", "true"), StatusDoc("failed", "false"), NullStatus }

NoFindAll ==
  [pc |-> "none", entry |-> "none", needIngest |-> FALSE,
   maxWaitSeconds |-> 0, now |-> 0, lastStatus |-> "null", pollCount |-> 0,
   statusFetches |-> 0, resultFetches |-> 0, held |-> NullStatus,
   resultOutcome |-> "none", polls |-> <<>>, out |-> <<>>]

\* observer.next({data: JSON.stringify({type, data})})
ObserverNext(out, type, data) ==
  Append(out, [op |-> "next", type |-> type, data |-> data])
\* observer.complete()
ObserverComplete(out) ==
  Append(out, [op |-> "complete", type |-> "", data |-> <<>>])
\* observer.error(error)
ObserverError(out, error) ==
  Append(out, [op |-> "error", type |-> "", data |-> error])

\* streamRun, the code after the while loop: 'timeout', complete()
PollingTimeout(f) ==
  [f EXCEPT !.pc = "done",
            !.out = ObserverComplete(ObserverNext(@, "timeout",
                      [seconds |-> f.maxWaitSeconds]))]

\* Mutant of StreamRunLoop: the loop condition admits the instant at which
\* the wait is used up.
StreamRunLoop_Inclusive(f) ==
  IF f.now <= f.maxWaitSeconds
    THEN [f EXCEPT !.pc = "polling", !.pollCount = @ + 1,
                   !.statusFetches = @ + 1]
    ELSE PollingTimeout(f)

\* streamRun, while (Date.now() - startTime < maxWaitMs): pollCount++ and
\* the status request, or the code after the loop
StreamRunLoop(f) ==
  IF f.now < f.maxWaitSeconds
    THEN [f EXCEPT !.pc = "polling", !.pollCount = @ + 1,
                   !.statusFetches = @ + 1]
    ELSE PollingTimeout(f)

\* streamRun, up to the first pass of the loop: 'connected'
StreamRun(f) ==
  StreamRunLoop([f EXCEPT !.now = 0, !.lastStatus = "null", !.pollCount = 0,
                          !.out = ObserverNext(@, "connected", <<>>)])

\* status.status?.status || 'unknown'
CurrentStatus(doc) ==
  IF doc.status \in {"undefined", "null", ""} THEN "unknown" ELSE doc.status

\* Mutant of EmitStatus: an unchanged status is reported on every poll.
EmitStatus_EveryPoll(f, doc) ==
  [f EXCEPT !.lastStatus = CurrentStatus(doc),
            !.out = ObserverNext(@, "status_update", doc)]

\* streamRun, "only emit status if it changed", else the periodic update
EmitStatus(f, doc) ==
  IF CurrentStatus(doc) # f.lastStatus
    THEN [f EXCEPT !.lastStatus = CurrentStatus(doc),
                   !.out = ObserverNext(@, "status_update", doc)]
  ELSE IF f.pollCount % 5 = 0
    THEN [f EXCEPT !.out = ObserverNext(@, "status_update", doc)]
  ELSE f

\* streamRun, the catch of a poll (pollError): wait, then poll again
PollError(f) == [f EXCEPT !.pc = "waiting"]

\* Mutant of OnStatus: a failed run, or one that is no longer active without
\* being completed, ends the stream with an error event and error().
OnStatus_FailureErrors(f, doc) ==
  IF doc.isNull THEN PollError(f)
  ELSE LET f1 == EmitStatus(f, doc)
           currentStatus == CurrentStatus(doc)
           isActive == doc.is_active # "false"
       IN  IF currentStatus = "completed"
             THEN [f1 EXCEPT !.pc = "fetchingResult", !.held = doc,
                             !.resultFetches = @ + 1]
           ELSE IF currentStatus = "failed" \/ ~isActive
             THEN [f1 EXCEPT !.pc = "done",
                     !.out = ObserverError(ObserverNext(@, "error",
                               [error |-> "FindAll run failed"]),
                               PlainError("FindAll run failed"))]
           ELSE [f1 EXCEPT !.pc = "waiting"]

\* streamRun, the try block of a poll after makeRequest returned
OnStatus(f, doc) ==
  IF doc.isNull THEN PollError(f)
  ELSE LET f1 == EmitStatus(f, doc)
           currentStatus == CurrentStatus(doc)
           isActive == doc.is_active # "false"
       IN  IF currentStatus = "completed" \/ currentStatus = "failed"
              \/ ~isActive
             THEN [f1 EXCEPT !.pc = "fetchingResult", !.held = doc,
                             !.resultFetches = @ + 1]
             ELSE [f1 EXCEPT !.pc = "waiting"]

\* streamRun, the result request returned: 'complete' with the results
OnResult(f, results) ==
  [f EXCEPT !.pc = "done", !.resultOutcome = "fetched",
            !.out = ObserverComplete(ObserverNext(@, "complete",
                      [results |-> results, status |-> NullStatus]))]

\* Mutant of OnResultError: the failure of the result request ends the
\* stream with error().
OnResultError_Errors(f, error) ==
  [f EXCEPT !.pc = "done", !.resultOutcome = "failed",
            !.out = ObserverError(ObserverNext(@, "error",
                      [error |-> error.message]), error)]

\* streamRun, catch (resultError): 'complete' with the status only
OnResultError(f, error) ==
  [f EXCEPT !.pc = "done", !.resultOutcome = "failed",
            !.out = ObserverComplete(ObserverNext(@, "complete",
                      [results |-> "none", status |-> f.held]))]

\* streamComplete, step 2: 'run_creating' and the request that creates the
\* run
CreateRun(f) ==
  [f EXCEPT !.pc = "creating", !.out = ObserverNext(@, "run_creating", <<>>)]

\* streamComplete up to its first request
StreamComplete(f) ==
  IF f.needIngest
    THEN [f EXCEPT !.pc = "ingesting", !.out = ObserverNext(@, "ingest", <<>>)]
    ELSE CreateRun(f)

\* streamComplete, the ingest request returned: 'ingest_complete'
OnIngest(f) ==
  CreateRun([f EXCEPT !.out = ObserverNext(@, "ingest_complete", <<>>)])

\* Mutant of StreamCompleteCatch: the error event is sent, error() is not.
StreamCompleteCatch_NoTerminal(f, error) ==
  [f EXCEPT !.pc = "done",
            !.out = ObserverNext(@, "error", [error |-> error.message])]

\* streamComplete, the catch block: 'error', then observer.error(error)
StreamCompleteCatch(f, error) ==
  [f EXCEPT !.pc = "done",
            !.out = ObserverError(ObserverNext(@, "error",
                      [error |-> error.message]), error)]

\* streamComplete, the create request returned
OnCreated(f, findall_id) ==
  IF findall_id \in {"undefined", "null", ""}
    THEN StreamCompleteCatch(f,
           PlainError("Failed to create FindAll run: No findall_id returned"))
    ELSE StreamRun([f EXCEPT !.out = ObserverNext(@, "run_created",
                                       [findall_id |-> findall_id])])

\* The status_update calls made on the observer.
StatusUpdates(out) ==
  Cardinality({i \in DOMAIN out : out[i].type = "status_update"})

\* ------------------------------------------------- FileLoggerService
\* The calls made on the logger for one run id, and the milliseconds the
\* clock can show while they run.
MaxCalls == 2
MaxClock == 1
LogCalls == 1..MaxCalls
LoggedRun == "run1"

\* `${timestamp}_${sanitizedRunId}.log`: the name holds the millisecond at
\* which createRunLog computed it.
Filename(timestamp, id) == <<timestamp, id>>
LogPaths == {Filename(t, LoggedRun) : t \in 0..MaxClock}
NoPath == <<-1, "">>

\* An entry is the number of the logEvent call that wrote it; the RUN_START
\* entry that createRunLog writes is entry 0.
RunStart == 0
NoFile == [exists |-> FALSE, entries |-> <<>>]
\* appended: appendFile wrote the entry of the call.
NoCall == [kind |-> "none", pc |-> "idle", path |-> NoPath,
           appended |-> FALSE]
NoFileLog ==
  [clock |-> 0, logFileMap |-> NoPath, files |-> [p \in LogPaths |-> NoFile],
   calls |-> [c \in LogCalls |-> NoCall], issued |-> <<>>]

\* createRunLog up to its first await (ensureLogsDirectory)
CreateRunLogEnter(L, c) == [L EXCEPT !.calls[c].pc = "ensuring"]

\* logEvent up to its first await: the lookup in logFileMap, then either
\* the lazy createRunLog or appendFile
LogEventEnter(L, c) ==
  IF L.logFileMap = NoPath
    THEN CreateRunLogEnter(L, c)
    ELSE [L EXCEPT !.calls[c].pc = "appending",
                   !.calls[c].path = L.logFileMap]

\* createRunLog after ensureLogsDirectory: the file name, then writeFile
AfterEnsure(L, c) ==
  [L EXCEPT !.calls[c].pc = "writing",
            !.calls[c].path = Filename(L.clock, LoggedRun)]

\* createRunLog after writeFile: logFileMap.set and return, or the catch
\* block, which rethrows; a logEvent that called it continues with
\* appendFile, or catches the error and warns.
AfterWrite(L, c, ok) ==
  LET path == L.calls[c].path
  IN  IF ok
        THEN [L EXCEPT !.files[path] =
                         [exists |-> TRUE, entries |-> <<RunStart>>],
                       !.logFileMap = path,
                       !.calls[c].pc = IF L.calls[c].kind = "createRunLog"
                                         THEN "returned" ELSE "appending"]
        ELSE [L EXCEPT !.calls[c].pc = IF L.calls[c].kind = "createRunLog"
                                         THEN "rejected" ELSE "returned"]

\* logEvent after appendFile: return, or catch and warn
AfterAppend(L, c, ok) ==
  LET path == L.calls[c].path
  IN  IF ok
        THEN [L EXCEPT !.files[path] =
                         [exists |-> TRUE, entries |-> Append(@.entries, c)],
                       !.calls[c].appended = TRUE,
                       !.calls[c].pc = "returned"]
        ELSE [L EXCEPT !.calls[c].pc = "returned"]

\* ------------------------------------------- two concurrent streamTask
RunIds == {1, 2}
RunHandle(i) == IF i = 1 THEN "run1" ELSE "run2"

\* The state documents the feed of each run is made of.
RunDocs(i) ==
  IF i = 1 THEN {DocRunning, DocCompletedTopX, DocFailedBoom}
  ELSE {DocCompletedTopNull, DocCompletedRunX, DocFailedNoError}
FirstDoc(i) == IF i = 1 THEN DocRunning ELSE DocCompletedTopNull

StateLine(d) == <<DataPrefix, d, "}", NL>>

\* Largest number of state events in the feed of a concurrent run.
MaxRunEvents == 2

RECURSIVE RunTails(_, _)
\* n more state events: non-terminal first documents, any document last
RunTails(i, n) ==
  IF n = 0 THEN {<<>>}
  ELSE {<<>>} \cup {StateLine(d) : d \in RunDocs(i)}
       \cup {StateLine(FirstDoc(i)) \o f : f \in RunTails(i, n - 1)}

\* The feeds of run i: the event line, then up to MaxRunEvents state events.
RunFeeds(i) ==
  {<<EventPrefix>> \o StateType \o <<NL>> \o f : f \in RunTails(i, MaxRunEvents)}

\* The closure state of a subscription that was not made yet.
InitialRelay ==
  [hasCompleted |-> FALSE, timeoutId |-> "none", finalResult |-> NoResult,
   eventCount |-> 0, buffer |-> <<>>, decoderPending |-> <<>>,
   currentEventType |-> MessageType, promise |-> PendingPromise,
   settleCalls |-> 0, delivered |-> <<>>, sink |-> <<>>,
   onEventThrows |-> NeverThrows]

\* One streamTask call: where it stands, its feed connection, the closure
\* state of its subscription, and the callbacks that ran for it.
NewRun ==
  [pc |-> "creating", relay |-> "idle", feed |-> <<>>, wire |-> <<>>,
   st |-> InitialRelay, sub |-> NoSubscription, history |-> <<>>]

\* What the service objects shared by all runs hold: the logFileMap of the
\* file logger, keyed by run id.
NoRuns == [run |-> [i \in RunIds |-> NewRun], logFileMap |-> {}]

\* A callback of a run and its input.
Step(kind) == [kind |-> kind, feed |-> <<>>, n |-> 0, error |-> NoError]

\* The continuation of the streamTask of the run is due.
RunContinuationPending(R) ==
  R.pc = "streaming" /\ R.st.promise.state # "pending"

\* The callback may run now for the run.
StepEnabled(R, s) ==
  CASE s.kind \in {"createFails", "createReturns"} -> R.pc = "creating"
    [] s.kind = "timer" -> R.st.timeoutId = "armed"
    [] s.kind \in {"fetchFails", "fetchResponds"} -> R.relay = "fetching"
    [] s.kind = "chunk" ->
         R.relay = "reading" /\ s.n \in 1..Len(R.wire) /\ R.wire[s.n] = NL
    [] s.kind = "done" -> R.relay = "reading" /\ R.wire = <<>>
    [] s.kind = "continue" -> RunContinuationPending(R)

\* The effect of the callback on the run it belongs to.
ApplyStep(i, R, s) ==
  LET R1 == [R EXCEPT !.history = Append(@, s)]
  IN  CASE s.kind = "createFails" ->
             [R1 EXCEPT !.pc = "done", !.st.sink = StreamTaskCatch(@, s.error)]
        [] s.kind = "createReturns" ->
             LET c == ConnectAndSubscribe(R.st, R.sub, RunHandle(i), TRUE)
             IN  [R1 EXCEPT !.pc = "streaming", !.st = c.st, !.sub = c.sub,
                            !.relay = "fetching"]
        [] s.kind = "timer" -> [R1 EXCEPT !.st = TimeoutCallback(@)]
        [] s.kind = "fetchFails" ->
             [R1 EXCEPT !.st = FetchCatch(@, s.error), !.relay = "failed"]
        [] s.kind = "fetchResponds" ->
             [R1 EXCEPT !.feed = s.feed, !.wire = s.feed, !.relay = "reading"]
        [] s.kind = "chunk" ->
             LET st == ProcessChunk(R.st, SubSeq(R.wire, 1, s.n))
             IN  [R1 EXCEPT !.st = st,
                            !.wire = SubSeq(@, s.n + 1, Len(@)),
                            !.relay = IF st.hasCompleted THEN "unread"
                                      ELSE "reading"]
        [] s.kind = "done" ->
             [R1 EXCEPT !.st = ProcessDone(@), !.relay = "closed"]
        [] s.kind = "continue" ->
             [R1 EXCEPT !.pc = "done",
                        !.st.sink = IF R.st.promise.state = "resolved"
                                      THEN StreamTaskSuccess(@)
                                      ELSE StreamTaskCatch(@, R.st.promise.error)]

\* Mutant of RunState: hasCompleted is kept on the service object, shared
\* by all subscriptions.
RunState_SharedFlag(rs, i) ==
  [rs.run[i] EXCEPT
     !.st.hasCompleted = \E j \in RunIds : rs.run[j].st.hasCompleted]

\* The state a callback of run i sees: streamTask's locals and the closure
\* variables of its own streamParallelEvents call.
RunState(rs, i) == rs.run[i]

\* The callback runs for run i.
RunStep(rs, i, s) ==
  [rs EXCEPT !.run[i] = ApplyStep(i, RunState(rs, i), s),
             !.logFileMap = IF s.kind = "createReturns"
                              THEN @ \cup {RunHandle(i)} ELSE @]

\* --------------------------- streamParallelEvents with a given callback
\* Largest feed, after its first event line, of a subscription made with a
\* callback of the caller.
MaxCallbackBytes == 8

\* The callbacks a caller passes as onEvent, each given by the statuses of
\* the events it throws on.
Callbacks == {NeverThrows, {"completed"}, {"failed"}, {"running"}}

\* The feeds of such a subscription: state events, or events without an
\* event line.
CallbackFeeds ==
  {p \o f : p \in {<<>>, <<EventPrefix>> \o StateType \o <<NL>>},
            f \in FeedsUpTo(MaxCallbackBytes)}

\* A call of streamParallelEvents that was not made yet.
NoDirect ==
  [relay |-> "idle", feed |-> <<>>, wire |-> <<>>, st |-> InitialRelay]

\* ------------------------------------------------------ pollTaskResult
\* Largest attempt budget of a pollTaskResult call.
MaxTaskAttempts == 3

\* What client.taskRun.result can answer: a response object, with or
\* without an output, or an error.
TaskResponse(output) ==
  [kind |-> "response", output |-> output, message |-> ""]
TaskError(message) ==
  [kind |-> "error", output |-> "undefined", message |-> message]
NoRunResult == [kind |-> "undefined", output |-> "undefined", message |-> ""]

TaskOutputs == {"undefined", "null", "", "X"}
TaskErrorMessages ==
  {"Request timeout", "404 Not Found", "Internal server error"}
\* errorMsg.includes('timeout') || includes('not ready') ||
\* includes('still processing') || includes('404') || includes('not found')
StillProcessing(errorMsg) ==
  errorMsg \in {"Request timeout", "Task not ready", "Task still processing",
                "404 Not Found", "Run not found"}

TaskTimeoutError ==
  [kind |-> "error", output |-> "undefined",
   message |-> "Task timeout: Maximum attempts exceeded"]

NoReport == [success |-> "none", research |-> "", error |-> ""]

\* A call of pollTaskResult by a research tool that was not made yet.
NoTaskPoll ==
  [pc |-> "none", maxAttempts |-> 0, i |-> 0, runResult |-> NoRunResult,
   calls |-> 0, result |-> NoRunResult, history |-> <<>>,
   report |-> NoReport]

\* `Failed to get task result: ${errorMsg}`
FailedToGetMessage(errorMsg) ==
  CASE errorMsg = "Request timeout" ->
         "Failed to get task result: Request timeout"
    [] errorMsg = "404 Not Found" ->
         "Failed to get task result: 404 Not Found"
    [] errorMsg = "Internal server error" ->
         "Failed to get task result: Internal server error"
    [] OTHER -> "Failed to get task result: Task timeout: Maximum attempts exceeded"

\* quickDeepResearchTool.execute, what it returns once pollTaskResult has
\* settled: result?.output is tested for truthiness.
ToolReport(p) ==
  IF p.pc = "thrown"
    THEN [success |-> "false", research |-> "",
          error |-> FailedToGetMessage(p.result.message)]
  ELSE IF p.result.output \notin {"undefined", "null", ""}
    THEN [success |-> "true", research |-> p.result.output, error |-> ""]
  ELSE [success |-> "true", research |-> "No research results found.",
        error |-> ""]

\* pollTaskResult throws: the catch of the tool builds its report.
TaskPollThrow(p, error) ==
  LET p1 == [p EXCEPT !.pc = "thrown", !.result = error]
  IN  [p1 EXCEPT !.report = ToolReport(p1)]

\* pollTaskResult returns: the tool builds its report.
TaskPollReturn(p, value) ==
  LET p1 == [p EXCEPT !.pc = "returned", !.result = value]
  IN  [p1 EXCEPT !.report = ToolReport(p1)]

\* Mutant of TaskPollExit: running out of attempts always throws.
TaskPollExit_AlwaysTimeout(p) ==
  IF p.runResult.kind = "undefined" \/ p.runResult.output = "undefined"
    THEN TaskPollThrow(p, TaskTimeoutError)
    ELSE TaskPollReturn(p, p.runResult)

\* pollTaskResult, after the loop: if (!runResult) throw ...; return runResult
TaskPollExit(p) ==
  IF p.runResult.kind = "undefined"
    THEN TaskPollThrow(p, TaskTimeoutError)
    ELSE TaskPollReturn(p, p.runResult)

\* pollTaskResult, the head of the for loop and the call of taskRun.result
TaskPollIterate(p) ==
  IF p.i < p.maxAttempts
    THEN [p EXCEPT !.pc = "requesting", !.calls = @ + 1]
    ELSE TaskPollExit(p)

\* Mutant of TaskPollTry: a response without output does not end the wait
\* for one, a response with output does not either.
TaskPollTry_NoBreak(p, response) ==
  [p EXCEPT !.runResult = response, !.pc = "waiting",
            !.history = Append(@, response)]

\* pollTaskResult, the try block after taskRun.result returned
TaskPollTry(p, response) ==
  LET p1 == [p EXCEPT !.runResult = response,
                      !.history = Append(@, response)]
  IN  IF response.output # "undefined" THEN TaskPollExit(p1)
      ELSE [p1 EXCEPT !.pc = "waiting"]

\* pollTaskResult, the catch block
TaskPollCatch(p, error) ==
  LET p1 == [p EXCEPT !.history = Append(@, error)]
  IN  IF StillProcessing(error.message) /\ p.i < p.maxAttempts - 1
        THEN [p1 EXCEPT !.pc = "waiting"]
      ELSE IF p.i = p.maxAttempts - 1 THEN TaskPollThrow(p1, error)
      ELSE [p1 EXCEPT !.pc = "waiting"]

\* pollTaskResult, after the awaited setTimeout: i++ and the loop head
TaskPollAfterWait(p) == TaskPollIterate([p EXCEPT !.i = @ + 1])

\* ------------------------------------------------------------- the state
VARIABLES
  apiKey,           \* process.env.PARALLEL_API_KEY is set
  pc,               \* where streamTask stands
  runId,            \* the run id returned by createTask
  sink,             \* the calls made on the observer, in order
  relay,            \* the feed connection: idle, fetching, failed (no
                    \* body), reading (a read is pending), unread (body
                    \* open, no read pending), closed (done), errored
  feed,             \* the bytes of the response body
  wire,             \* the bytes of the body not yet read
  hasCompleted, timeoutId, finalResult, eventCount,
  buffer, decoderPending, currentEventType,
  promise,          \* the promise returned by streamParallelEvents
  settleCalls,      \* how often resolve or reject was called on it
  delivered,        \* the events handed to onEvent, in order
  streamDone,       \* the reader reported done
  creation,         \* the calls of createTask: what they met and returned
  subscription      \* the calls of streamParallelEvents and of its fetch

relayVars ==
  <<apiKey, pc, runId, sink, relay, feed, wire, hasCompleted, timeoutId,
    finalResult, eventCount, buffer, decoderPending, currentEventType,
    promise, settleCalls, delivered, streamDone, creation, subscription>>

\* The state of the other components, each exercised by a specification of
\* its own.
VARIABLES
  poller,           \* one call of pollFindAllStatus
  findAll,          \* one call of streamComplete or streamRun
  fileLog,          \* the file logger: its map, its files, the calls on it
  runs,             \* two concurrent calls of streamTask
  direct,           \* a call of streamParallelEvents with a callback of the caller
  taskPoll          \* a call of pollTaskResult by a research tool

auxVars == <<poller, findAll, fileLog, runs, direct, taskPoll>>

vars == <<relayVars, auxVars>>

\* The closure state of one subscription, as the callbacks see it.
RelayState ==
  [hasCompleted |-> hasCompleted, timeoutId |-> timeoutId,
   finalResult |-> finalResult, eventCount |-> eventCount,
   buffer |-> buffer, decoderPending |-> decoderPending,
   currentEventType |-> currentEventType, promise |-> promise,
   settleCalls |-> settleCalls, delivered |-> delivered, sink |-> sink,
   onEventThrows |-> NeverThrows]

SetRelayState(st) ==
  /\ hasCompleted' = st.hasCompleted
  /\ timeoutId' = st.timeoutId
  /\ finalResult' = st.finalResult
  /\ eventCount' = st.eventCount
  /\ buffer' = st.buffer
  /\ decoderPending' = st.decoderPending
  /\ currentEventType' = st.currentEventType
  /\ promise' = st.promise
  /\ settleCalls' = st.settleCalls
  /\ delivered' = st.delivered
  /\ sink' = st.sink

RelayInit ==
  /\ apiKey \in BOOLEAN
  /\ pc = "start"
  /\ runId = "none"
  /\ sink = <<>>
  /\ relay = "idle"
  /\ feed = <<>>
  /\ wire = <<>>
  /\ hasCompleted = FALSE
  /\ timeoutId = "none"
  /\ finalResult = NoResult
  /\ eventCount = 0
  /\ buffer = <<>>
  /\ decoderPending = <<>>
  /\ currentEventType = MessageType
  /\ promise = PendingPromise
  /\ settleCalls = 0
  /\ delivered = <<>>
  /\ streamDone = FALSE
  /\ creation = NoCreation
  /\ subscription = NoSubscription

\* The other components at rest.
PollerIdle == poller = NoPoller
FindAllIdle == findAll = NoFindAll
FileLogIdle == fileLog = NoFileLog
RunsIdle == runs = NoRuns
DirectIdle == direct = NoDirect
TaskPollIdle == taskPoll = NoTaskPoll

Init ==
  /\ RelayInit /\ PollerIdle /\ FindAllIdle /\ FileLogIdle /\ RunsIdle
  /\ DirectIdle /\ TaskPollIdle

\* The continuation of streamTask after the awaited relay is a microtask: it
\* runs before any timer or I/O callback.
ContinuationPending == pc = "streaming" /\ promise.state # "pending"

\* streamObservable subscribes: streamTask runs generateTaskInput and calls
\* createTask, which throws at once when the credential is missing and
\* otherwise posts the task run.
StreamTask ==
  /\ pc = "start"
  /\ \E inputThrows \in BOOLEAN :
       IF inputThrows
         THEN /\ sink' = StreamTaskCatch(sink, PlainError("bad config"))
              /\ pc' = "done"
              /\ creation' = creation
       ELSE IF ~apiKey
         THEN LET r == CreateTask(apiKey, NoResponse, "absent")
              IN  /\ sink' = StreamTaskCatch(sink, r.error)
                  /\ pc' = "done"
                  /\ creation' = Settled([creation EXCEPT !.calls = @ + 1],
                                         NoResponse, r)
       ELSE /\ sink' = sink
            /\ pc' = "creating"
            /\ creation' = [creation EXCEPT !.calls = @ + 1,
                                            !.requests = PostTaskRun(@)]
  /\ UNCHANGED <<apiKey, runId, relay, feed, wire, hasCompleted, timeoutId,
                 finalResult, eventCount, buffer, decoderPending,
                 currentEventType, promise, settleCalls, delivered, streamDone,
                 subscription>>
  /\ UNCHANGED auxVars

\* createTask fails: the catch block of streamTask terminates the sink.
CreateTaskFails ==
  /\ pc = "creating"
  /\ \E response \in CreateResponses, logging \in LoggerOutcomes :
       LET r == CreateTask(apiKey, response, logging)
       IN  /\ ~r.ok
           /\ sink' = StreamTaskCatch(sink, r.error)
           /\ creation' = Settled(creation, response, r)
  /\ pc' = "done"
  /\ UNCHANGED <<apiKey, runId, relay, feed, wire, hasCompleted, timeoutId,
                 finalResult, eventCount, buffer, decoderPending,
                 currentEventType, promise, settleCalls, delivered, streamDone,
                 subscription>>
  /\ UNCHANGED auxVars

\* createTask returns the run id: the 'connected' event is emitted and the
\* relay is subscribed.
CreateTaskReturns ==
  /\ pc = "creating"
  /\ \E response \in CreateResponses, logging \in LoggerOutcomes :
       LET r == CreateTask(apiKey, response, logging)
           c == ConnectAndSubscribe(RelayState, subscription, r.runId, apiKey)
       IN  /\ r.ok
           /\ runId' = r.runId
           /\ creation' = Settled(creation, response, r)
           /\ SetRelayState(c.st)
           /\ subscription' = c.sub
           /\ relay' = IF c.st.timeoutId = "armed" THEN "fetching" ELSE "idle"
  /\ pc' = "streaming"
  /\ UNCHANGED <<apiKey, feed, wire, streamDone>>
  /\ UNCHANGED auxVars

\* The timer fires.
TimerFire ==
  /\ timeoutId = "armed"
  /\ ~ContinuationPending
  /\ SetRelayState(TimeoutCallback(RelayState))
  /\ UNCHANGED <<apiKey, pc, runId, relay, feed, wire, streamDone, creation,
                 subscription>>
  /\ UNCHANGED auxVars

FetchFailures ==
  { PlainError("HTTP error! status: 500 Internal Server Error"),
    PlainError("Response body is null"),
    [name |-> "TypeError", message |-> "fetch failed"] }

\* The fetch of the events endpoint fails, or answers with a non-success
\* status or without a body.
FetchFails ==
  /\ relay = "fetching"
  /\ ~ContinuationPending
  /\ \E error \in FetchFailures : SetRelayState(FetchCatch(RelayState, error))
  /\ relay' = "failed"
  /\ UNCHANGED <<apiKey, pc, runId, feed, wire, streamDone, creation,
                 subscription>>
  /\ UNCHANGED auxVars

\* The fetch answers 200 with a body: the reader is created and the first
\* read is issued.
FetchResponds ==
  /\ relay = "fetching"
  /\ ~ContinuationPending
  /\ \E f \in Feeds : feed' = f /\ wire' = f
  /\ relay' = "reading"
  /\ buffer' = <<>>
  /\ currentEventType' = MessageType
  /\ decoderPending' = <<>>
  /\ UNCHANGED <<apiKey, pc, runId, sink, hasCompleted, timeoutId, finalResult,
                 eventCount, promise, settleCalls, delivered, streamDone, creation,
                 subscription>>
  /\ UNCHANGED auxVars

\* A read delivers the next n bytes of the body.
ReadChunk ==
  /\ relay = "reading"
  /\ ~ContinuationPending
  /\ wire # <<>>
  /\ \E n \in 1..Len(wire) :
       LET st == ProcessChunk(RelayState, SubSeq(wire, 1, n))
       IN  /\ SetRelayState(st)
           /\ wire' = SubSeq(wire, n + 1, Len(wire))
           /\ relay' = IF st.hasCompleted THEN "unread" ELSE "reading"
  /\ UNCHANGED <<apiKey, pc, runId, feed, streamDone, creation,
                 subscription>>
  /\ UNCHANGED auxVars

\* A read reports done: the body has ended.
ReadDone ==
  /\ relay = "reading"
  /\ ~ContinuationPending
  /\ wire = <<>>
  /\ SetRelayState(ProcessDone(RelayState))
  /\ relay' = "closed"
  /\ streamDone' = TRUE
  /\ UNCHANGED <<apiKey, pc, runId, feed, wire, creation,
                 subscription>>
  /\ UNCHANGED auxVars

\* A read fails (the connection breaks).
ReadError ==
  /\ relay = "reading"
  /\ ~ContinuationPending
  /\ SetRelayState(ProcessReadError(RelayState,
                     [name |-> "TypeError", message |-> "terminated"]))
  /\ relay' = "errored"
  /\ UNCHANGED <<apiKey, pc, runId, feed, wire, streamDone, creation,
                 subscription>>
  /\ UNCHANGED auxVars

\* streamTask resumes after the awaited relay has settled.
Continue ==
  /\ ContinuationPending
  /\ sink' = IF promise.state = "resolved" THEN StreamTaskSuccess(sink)
             ELSE StreamTaskCatch(sink, promise.error)
  /\ pc' = "done"
  /\ UNCHANGED <<apiKey, runId, relay, feed, wire, hasCompleted, timeoutId,
                 finalResult, eventCount, buffer, decoderPending,
                 currentEventType, promise, settleCalls, delivered, streamDone,
                 creation, subscription>>
  /\ UNCHANGED auxVars

Next ==
  \/ StreamTask
  \/ CreateTaskFails
  \/ CreateTaskReturns
  \/ TimerFire
  \/ FetchFails
  \/ FetchResponds
  \/ ReadChunk
  \/ ReadDone
  \/ ReadError
  \/ Continue

Spec == Init /\ [][Next]_vars

\* The runtime fires an armed timer.
LiveSpec == Spec /\ WF_vars(TimerFire)

TypeOK ==
  /\ pc \in {"start", "creating", "streaming", "done"}
  /\ relay \in {"idle", "fetching", "failed", "reading", "unread", "closed",
                "errored"}
  /\ timeoutId \in {"none", "armed", "cleared", "fired"}
  /\ promise.state \in {"pending", "resolved", "rejected"}
  /\ hasCompleted \in BOOLEAN
  /\ Len(wire) <= MaxBytes


\* ------------------------------------------- pollFindAllStatus, actions
RelayIdle == RelayInit /\ apiKey

PollInit ==
  /\ RelayIdle
  /\ FindAllIdle
  /\ FileLogIdle
  /\ RunsIdle
  /\ DirectIdle
  /\ TaskPollIdle
  /\ \E n \in 0..MaxAttempts :
       poller = [NoPoller EXCEPT !.pc = "called", !.maxAttempts = n]

\* pollFindAllStatus is called.
PollCall ==
  /\ poller.pc = "called"
  /\ poller' = PollIterate(poller)
  /\ UNCHANGED <<relayVars, findAll, fileLog, runs, direct, taskPoll>>

\* The status request returns a document.
PollResponds ==
  /\ poller.pc = "fetching"
  /\ \E doc \in StatusDocs \cup {NullStatus} :
       poller' = PollTry([poller EXCEPT
                            !.history = Append(@, [ok |-> TRUE, doc |-> doc])],
                         doc)
  /\ UNCHANGED <<relayVars, findAll, fileLog, runs, direct, taskPoll>>

\* The status request throws.
PollRequestFails ==
  /\ poller.pc = "fetching"
  /\ poller' = PollCatch([poller EXCEPT !.history = Append(@, RequestFailed)])
  /\ UNCHANGED <<relayVars, findAll, fileLog, runs, direct, taskPoll>>

\* The interval has elapsed.
PollWaitElapsed ==
  /\ poller.pc = "waiting"
  /\ poller' = PollAfterWait(poller)
  /\ UNCHANGED <<relayVars, findAll, fileLog, runs, direct, taskPoll>>

PollNext ==
  \/ PollCall
  \/ PollResponds
  \/ PollRequestFails
  \/ PollWaitElapsed

PollSpec == PollInit /\ [][PollNext]_vars

\* Requests settle and timers fire.
PollLiveSpec == PollSpec /\ WF_vars(PollNext)

\* ------------------------------- FindAllStreamingService, actions
RequestError == PlainError("FindAll API request failed: 500 Internal Server Error - oops")

FindAllInit ==
  /\ RelayIdle
  /\ PollerIdle
  /\ FileLogIdle
  /\ RunsIdle
  /\ DirectIdle
  /\ TaskPollIdle
  /\ \E entry \in {"streamComplete", "streamRun"}, needIngest \in BOOLEAN,
        w \in WaitChoices :
       /\ entry = "streamRun" => ~needIngest
       /\ findAll = [NoFindAll EXCEPT !.pc = "called", !.entry = entry,
                                      !.needIngest = needIngest,
                                      !.maxWaitSeconds = w]

\* streamComplete or streamRun is called with an observer.
FindAllCall ==
  /\ findAll.pc = "called"
  /\ findAll' = IF findAll.entry = "streamComplete"
                  THEN StreamComplete(findAll) ELSE StreamRun(findAll)
  /\ UNCHANGED <<relayVars, poller, fileLog, runs, direct, taskPoll>>

\* The ingest request returns, or fails (the failure is logged only).
IngestSettles ==
  /\ findAll.pc = "ingesting"
  /\ \E ok \in BOOLEAN :
       findAll' = IF ok THEN OnIngest(findAll) ELSE CreateRun(findAll)
  /\ UNCHANGED <<relayVars, poller, fileLog, runs, direct, taskPoll>>

\* The create request returns.
CreateRunReturns ==
  /\ findAll.pc = "creating"
  /\ \E id \in {"fa1", "undefined", ""} : findAll' = OnCreated(findAll, id)
  /\ UNCHANGED <<relayVars, poller, fileLog, runs, direct, taskPoll>>

\* The create request throws.
CreateRunFails ==
  /\ findAll.pc = "creating"
  /\ findAll' = StreamCompleteCatch(findAll, RequestError)
  /\ UNCHANGED <<relayVars, poller, fileLog, runs, direct, taskPoll>>

\* A status request returns after d seconds.
StatusReturns ==
  /\ findAll.pc = "polling"
  /\ \E doc \in PolledDocs, d \in RequestDurations :
       LET f1 == OnStatus([findAll EXCEPT !.now = @ + d], doc)
       IN  findAll' =
             [f1 EXCEPT !.polls = Append(@,
                [count |-> findAll.pollCount, returned |-> TRUE, ok |-> ~doc.isNull,
                 doc |-> doc,
                 updates |-> StatusUpdates(f1.out) - StatusUpdates(findAll.out)])]
  /\ UNCHANGED <<relayVars, poller, fileLog, runs, direct, taskPoll>>

\* A status request throws after d seconds.
StatusFails ==
  /\ findAll.pc = "polling"
  /\ \E d \in RequestDurations :
       LET f1 == PollError([findAll EXCEPT !.now = @ + d])
       IN  findAll' =
             [f1 EXCEPT !.polls = Append(@,
                [count |-> findAll.pollCount, returned |-> FALSE, ok |-> FALSE,
                 doc |-> NullStatus,
                 updates |-> StatusUpdates(f1.out) - StatusUpdates(findAll.out)])]
  /\ UNCHANGED <<relayVars, poller, fileLog, runs, direct, taskPoll>>

\* The poll interval has elapsed: the loop condition is evaluated again.
PollIntervalElapsed ==
  /\ findAll.pc = "waiting"
  /\ findAll' = StreamRunLoop([findAll EXCEPT !.now = @ + PollInterval])
  /\ UNCHANGED <<relayVars, poller, fileLog, runs, direct, taskPoll>>

\* The result request returns.
ResultReturns ==
  /\ findAll.pc = "fetchingResult"
  /\ findAll' = OnResult(findAll, "candidates")
  /\ UNCHANGED <<relayVars, poller, fileLog, runs, direct, taskPoll>>

\* The result request throws.
ResultFails ==
  /\ findAll.pc = "fetchingResult"
  /\ findAll' = OnResultError(findAll, RequestError)
  /\ UNCHANGED <<relayVars, poller, fileLog, runs, direct, taskPoll>>

FindAllNext ==
  \/ FindAllCall
  \/ IngestSettles
  \/ CreateRunReturns
  \/ CreateRunFails
  \/ StatusReturns
  \/ StatusFails
  \/ PollIntervalElapsed
  \/ ResultReturns
  \/ ResultFails

FindAllSpec == FindAllInit /\ [][FindAllNext]_vars

\* ---------------------------------------- FileLoggerService, actions
LoggerInit ==
  /\ RelayIdle
  /\ PollerIdle
  /\ FindAllIdle
  /\ RunsIdle
  /\ DirectIdle
  /\ TaskPollIdle
  /\ fileLog = NoFileLog

\* The clock moves on to the next millisecond.
ClockTick ==
  /\ fileLog.clock < MaxClock
  /\ fileLog' = [fileLog EXCEPT !.clock = @ + 1]
  /\ UNCHANGED <<relayVars, poller, findAll, runs, direct, taskPoll>>

\* logEvent (or one of its wrappers) is called for the run.
CallLogEvent ==
  /\ \E c \in LogCalls :
       /\ fileLog.calls[c].kind = "none"
       /\ fileLog' = LogEventEnter(
                       [fileLog EXCEPT !.calls[c].kind = "logEvent",
                                       !.issued = Append(@, c)], c)
  /\ UNCHANGED <<relayVars, poller, findAll, runs, direct, taskPoll>>

\* createRunLog is called for the run.
CallCreateRunLog ==
  /\ \E c \in LogCalls :
       /\ fileLog.calls[c].kind = "none"
       /\ fileLog' = CreateRunLogEnter(
                       [fileLog EXCEPT !.calls[c].kind = "createRunLog",
                                       !.issued = Append(@, c)], c)
  /\ UNCHANGED <<relayVars, poller, findAll, runs, direct, taskPoll>>

\* ensureLogsDirectory has settled.
EnsureSettles ==
  /\ \E c \in LogCalls :
       /\ fileLog.calls[c].pc = "ensuring"
       /\ fileLog' = AfterEnsure(fileLog, c)
  /\ UNCHANGED <<relayVars, poller, findAll, runs, direct, taskPoll>>

\* fs.writeFile has settled.
WriteSettles ==
  /\ \E c \in LogCalls, ok \in BOOLEAN :
       /\ fileLog.calls[c].pc = "writing"
       /\ fileLog' = AfterWrite(fileLog, c, ok)
  /\ UNCHANGED <<relayVars, poller, findAll, runs, direct, taskPoll>>

\* fs.appendFile has settled.
AppendSettles ==
  /\ \E c \in LogCalls, ok \in BOOLEAN :
       /\ fileLog.calls[c].pc = "appending"
       /\ fileLog' = AfterAppend(fileLog, c, ok)
  /\ UNCHANGED <<relayVars, poller, findAll, runs, direct, taskPoll>>

LoggerNext ==
  \/ ClockTick
  \/ CallLogEvent
  \/ CallCreateRunLog
  \/ EnsureSettles
  \/ WriteSettles
  \/ AppendSettles

LoggerSpec == LoggerInit /\ [][LoggerNext]_vars

\* --------------------------------- two concurrent streamTask, actions
TwoRunsInit ==
  /\ RelayIdle
  /\ PollerIdle
  /\ FindAllIdle
  /\ FileLogIdle
  /\ DirectIdle
  /\ TaskPollIdle
  /\ runs = NoRuns

\* No continuation is due: a timer or I/O callback can run.
NoContinuation == \A j \in RunIds : ~RunContinuationPending(runs.run[j])

Take(i, s) ==
  /\ StepEnabled(runs.run[i], s)
  /\ runs' = RunStep(runs, i, s)
  /\ UNCHANGED <<relayVars, poller, findAll, fileLog, direct, taskPoll>>

\* createTask of a run fails.
RunCreateFails ==
  \E i \in RunIds :
    /\ NoContinuation
    /\ Take(i, [Step("createFails") EXCEPT
                  !.error = TaskCreationError(
                              "Failed to create task: No run ID returned")])

\* createTask of a run returns its run id.
RunCreateReturns ==
  \E i \in RunIds : NoContinuation /\ Take(i, Step("createReturns"))

\* The timer of a run fires.
RunTimerFires ==
  \E i \in RunIds : NoContinuation /\ Take(i, Step("timer"))

\* The connection attempt of a run fails.
RunFetchFails ==
  \E i \in RunIds :
    /\ NoContinuation
    /\ Take(i, [Step("fetchFails") EXCEPT
                  !.error = PlainError("Response body is null")])

\* The feed of a run is connected.
RunFetchResponds ==
  \E i \in RunIds :
    /\ NoContinuation
    /\ \E f \in RunFeeds(i) : Take(i, [Step("fetchResponds") EXCEPT !.feed = f])

\* A read of a run delivers its next lines.
RunReads ==
  \E i \in RunIds :
    /\ NoContinuation
    /\ \E n \in 1..Len(runs.run[i].wire) :
         Take(i, [Step("chunk") EXCEPT !.n = n])

\* The feed of a run ends.
RunReadEnds ==
  \E i \in RunIds : NoContinuation /\ Take(i, Step("done"))

\* streamTask of a run resumes after its relay has settled.
RunContinues ==
  \E i \in RunIds :
    /\ RunContinuationPending(runs.run[i])
    /\ Take(i, Step("continue"))

TwoRunsNext ==
  \/ RunCreateFails
  \/ RunCreateReturns
  \/ RunTimerFires
  \/ RunFetchFails
  \/ RunFetchResponds
  \/ RunReads
  \/ RunReadEnds
  \/ RunContinues

TwoRunsSpec == TwoRunsInit /\ [][TwoRunsNext]_vars

\* ----------------- streamParallelEvents with a given callback, actions
CallbackInit ==
  /\ RelayIdle
  /\ PollerIdle
  /\ FindAllIdle
  /\ FileLogIdle
  /\ RunsIdle
  /\ TaskPollIdle
  /\ direct = NoDirect

\* streamParallelEvents(runId, onEvent) is called: the timer is armed and
\* the fetch is started.
DirectCall ==
  /\ direct.relay = "idle"
  /\ \E cb \in Callbacks :
       direct' = [direct EXCEPT
                    !.st = Subscribe([@ EXCEPT !.onEventThrows = cb], TRUE),
                    !.relay = "fetching"]
  /\ UNCHANGED <<relayVars, poller, findAll, fileLog, runs, taskPoll>>

\* The fetch answers with a body: the first read is issued.
DirectFetchResponds ==
  /\ direct.relay = "fetching"
  /\ \E f \in CallbackFeeds :
       direct' = [direct EXCEPT !.feed = f, !.wire = f, !.relay = "reading"]
  /\ UNCHANGED <<relayVars, poller, findAll, fileLog, runs, taskPoll>>

\* A read delivers the next bytes of the body.
DirectReadChunk ==
  /\ direct.relay = "reading"
  /\ \E n \in 1..Len(direct.wire) :
       LET st == ProcessChunk(direct.st, SubSeq(direct.wire, 1, n))
       IN  direct' = [direct EXCEPT
                        !.st = st,
                        !.wire = SubSeq(@, n + 1, Len(@)),
                        !.relay = IF st.hasCompleted THEN "unread"
                                  ELSE "reading"]
  /\ UNCHANGED <<relayVars, poller, findAll, fileLog, runs, taskPoll>>

\* A read reports done.
DirectReadDone ==
  /\ direct.relay = "reading"
  /\ direct.wire = <<>>
  /\ direct' = [direct EXCEPT !.st = ProcessDone(@), !.relay = "closed"]
  /\ UNCHANGED <<relayVars, poller, findAll, fileLog, runs, taskPoll>>

\* The timer of the subscription fires.
DirectTimerFires ==
  /\ direct.st.timeoutId = "armed"
  /\ direct' = [direct EXCEPT !.st = TimeoutCallback(@)]
  /\ UNCHANGED <<relayVars, poller, findAll, fileLog, runs, taskPoll>>

CallbackNext ==
  \/ DirectCall
  \/ DirectFetchResponds
  \/ DirectReadChunk
  \/ DirectReadDone
  \/ DirectTimerFires

CallbackSpec == CallbackInit /\ [][CallbackNext]_vars

\* -------------------------------------------- pollTaskResult, actions
TaskPollInit ==
  /\ RelayIdle
  /\ PollerIdle
  /\ FindAllIdle
  /\ FileLogIdle
  /\ RunsIdle
  /\ DirectIdle
  /\ \E n \in 0..MaxTaskAttempts :
       taskPoll = [NoTaskPoll EXCEPT !.pc = "called", !.maxAttempts = n]

\* The tool calls pollTaskResult.
TaskPollCall ==
  /\ taskPoll.pc = "called"
  /\ taskPoll' = TaskPollIterate(taskPoll)
  /\ UNCHANGED <<relayVars, poller, findAll, fileLog, runs, direct>>

\* client.taskRun.result returns a response.
TaskResultReturns ==
  /\ taskPoll.pc = "requesting"
  /\ \E o \in TaskOutputs : taskPoll' = TaskPollTry(taskPoll, TaskResponse(o))
  /\ UNCHANGED <<relayVars, poller, findAll, fileLog, runs, direct>>

\* client.taskRun.result throws.
TaskResultFails ==
  /\ taskPoll.pc = "requesting"
  /\ \E m \in TaskErrorMessages :
       taskPoll' = TaskPollCatch(taskPoll, TaskError(m))
  /\ UNCHANGED <<relayVars, poller, findAll, fileLog, runs, direct>>

\* The one-second wait between two attempts is over.
TaskWaitElapsed ==
  /\ taskPoll.pc = "waiting"
  /\ taskPoll' = TaskPollAfterWait(taskPoll)
  /\ UNCHANGED <<relayVars, poller, findAll, fileLog, runs, direct>>

TaskPollNext ==
  \/ TaskPollCall
  \/ TaskResultReturns
  \/ TaskResultFails
  \/ TaskWaitElapsed

TaskPollSpec == TaskPollInit /\ [][TaskPollNext]_vars

\* Every request is answered and every timer fires.
TaskPollLiveSpec == TaskPollSpec /\ WF_vars(TaskPollNext)

\* ------------------------------------------------- reference computations
\* The bytes of the body that the reads have delivered so far.
Consumed == SubSeq(feed, 1, Len(feed) - Len(wire))

\* The closure state of a subscription whose reader was just created.
FreshRelay ==
  [hasCompleted |-> FALSE, timeoutId |-> "armed", finalResult |-> NoResult,
   eventCount |-> 0, buffer |-> <<>>, decoderPending |-> <<>>,
   currentEventType |-> MessageType, promise |-> PendingPromise,
   settleCalls |-> 0, delivered |-> <<>>, sink |-> <<>>,
   onEventThrows |-> NeverThrows]

\* The relay fed with the given bytes in one single read.
SingleChunk(bytes) == ProcessChunk(FreshRelay, bytes)

\* The relay fed with the whole body in one read, then with done if it reads
\* again.
SingleChunkRun(bytes) ==
  LET st == SingleChunk(bytes)
  IN  IF st.hasCompleted THEN st ELSE ProcessDone(st)

\* A complete line that is a data line whose payload is not valid JSON.
Malformed(line) ==
  /\ StartsWith(line, DataPrefix)
  /\ ~JSONParse(Decode(<<>>, Tail(line), <<>>).chars).ok

RECURSIVE JoinLines(_)
JoinLines(ls) ==
  IF Len(ls) = 1 THEN ls[1] ELSE ls[1] \o <<NL>> \o JoinLines(Tail(ls))

\* The bytes without their malformed data lines.
WithoutMalformed(bytes) ==
  LET ls == Split(bytes, <<>>, <<>>)
      n == Len(ls)
      keep == SelectSeq(SubSeq(ls, 1, n - 1), LAMBDA l : ~Malformed(l))
  IN  JoinLines(Append(keep, ls[n]))

\* Event i was handed to onEvent while the subscription was still pending.
ArrivedPending(i) == promise.state = "pending" \/ promise.at >= i

\* What a client reads out of a next call: JSON.parse(event.data)
Carried(call) == [type |-> call.data[3], data |-> call.data[5]]

TerminalCalls ==
  Cardinality({i \in DOMAIN sink : sink[i].op \in {"complete", "error"}})

\* ------------------------------------------------------------- the claims

\* C1: every run of streamTask makes exactly one terminal call on the sink,
\* complete() or error(): none before streamTask has finished, exactly one
\* once it has, on every path (input building throws, creation fails, connect
\* fails, malformed line, timeout, stream end, remote failure, completion).
C1_ExactlyOneTerminalCall ==
  /\ TerminalCalls <= 1
  /\ pc = "done" => TerminalCalls = 1
  /\ pc # "done" => TerminalCalls = 0

C1_Witness ==
  /\ pc = "done"
  /\ promise.by = "timer"
  /\ sink[Len(sink)].op = "error"
  /\ TerminalCalls = 1

\* C2: after error() or complete() no further call is made on the sink, i.e.
\* a terminal call is always the last call on the sink.
C2_NoCallAfterTerminal ==
  \A i \in 1..(Len(sink) - 1) : sink[i].op = "next"

\* C3: per subscription resolve and reject are called at most once in total.
C3_SettledAtMostOnce == settleCalls <= 1

C3_Witness ==
  /\ promise.by = "timer"
  /\ settleCalls = 1
  /\ \E i \in (promise.at + 1)..Len(delivered) :
       /\ delivered[i].type = StateType
       /\ delivered[i].data.status \in {"completed", "failed"}
       /\ delivered[i].data.output # "null"

\* C4: every subscription eventually settles; with a feed that stays open
\* without a terminal state event the timer rejects it.
C4_EventuallySettles == (pc = "streaming") ~> (promise.state # "pending")

C4_Witness ==
  /\ promise.state = "rejected"
  /\ promise.by = "timer"
  /\ promise.error.message = TimeoutMessage
  /\ relay = "reading"
  /\ wire = <<>>
  /\ ~streamDone

\* C5: the relay resolves exactly when a state event with run status
\* "completed" and a non-null embedded output arrives while it is pending,
\* and it resolves with that embedded output and the run.
C5_ResolvesWithRunOutput ==
  /\ promise.state = "resolved" =>
       /\ promise.result.run.status = "completed"
       /\ promise.result.run.runOutput \notin {"undefined", "null"}
       /\ promise.result.output = promise.result.run.runOutput
  /\ \A i \in 1..Len(delivered) :
       ( /\ delivered[i].type = StateType
         /\ delivered[i].data.status = "completed"
         /\ delivered[i].data.runOutput \notin {"undefined", "null"}
         /\ ArrivedPending(i) )
       => /\ promise.state = "resolved"
          /\ promise.by = "event"
          /\ promise.at = i

\* C6: a state event with run status "failed" that arrives while the
\* subscription is pending rejects it (never resolves it), with the embedded
\* run error as the message.
C6_FailedRejects ==
  \A i \in 1..Len(delivered) :
    ( /\ delivered[i].type = StateType
      /\ delivered[i].data.status = "failed"
      /\ ArrivedPending(i) )
    => /\ promise.state = "rejected"
       /\ promise.by = "event"
       /\ promise.at = i
       /\ delivered[i].data.runError # "undefined"
            => promise.error.message = delivered[i].data.runError

C6_Witness ==
  /\ promise.state = "rejected"
  /\ promise.by = "event"
  /\ promise.error.message = "boom"
  /\ delivered[promise.at].data.runError = "boom"

\* C7: when the reader reports done while the subscription is pending, the
\* subscription is rejected with 'Stream ended without result', which is not
\* the timeout error; also with zero events received.
C7_DoneRejects ==
  [][ (~streamDone /\ streamDone' /\ promise.state = "pending")
      => /\ promise'.state = "rejected"
         /\ promise'.by = "done"
         /\ promise'.error.message = StreamEndedMessage
         /\ promise'.error.message # TimeoutMessage ]_vars

C7_Witness ==
  /\ streamDone
  /\ promise.by = "done"
  /\ promise.state = "rejected"
  /\ delivered = <<>>

\* C8: a malformed data line is dropped and nothing else: the events handed
\* to onEvent, and the settlement by a later state event, are those of the
\* same bytes without the malformed lines.
C8_MalformedLineDropped ==
  relay \in {"reading", "unread", "closed"} =>
    LET ref == SingleChunk(WithoutMalformed(Consumed))
    IN  /\ delivered = ref.delivered
        /\ promise.by \in {"none", "event", "readError"} => promise = ref.promise

C8_Witness ==
  /\ promise.by = "event"
  /\ promise.at >= 1
  /\ \E k \in 1..Len(Consumed) :
       /\ Consumed[k] = NL
       /\ WithoutMalformed(SubSeq(Consumed, 1, k)) # SubSeq(Consumed, 1, k)
       /\ SingleChunk(SubSeq(Consumed, 1, k)).delivered = <<>>

\* C9: however the body is cut into chunks, the relay hands the same events
\* to onEvent and reaches the same outcome as for the body in one chunk.
C9_ChunkingInvariant ==
  (relay \in {"unread", "closed"} /\ promise.by \in {"event", "done"}) =>
    LET ref == SingleChunkRun(feed)
    IN  /\ delivered = ref.delivered
        /\ promise.state = ref.promise.state
        /\ promise.result = ref.promise.result
        /\ promise.error = ref.promise.error

\* C10: on a run that completes, the sink gets 'connected', then one next per
\* event in the order the events were parsed from the wire (none dropped,
\* duplicated or reordered), then the 'complete' event, then complete().
C10_EventsInOrderBeforeComplete ==
  (pc = "done" /\ promise.state = "resolved") =>
    LET events == SingleChunk(Consumed).delivered
        n == Len(events)
    IN  /\ Len(sink) = n + 3
        /\ sink[1].op = "next" /\ Carried(sink[1]).type = <<"connected">>
        /\ \A i \in 1..n :
             sink[i + 1].op = "next" /\ Carried(sink[i + 1]) = events[i]
        /\ sink[n + 2].op = "next" /\ Carried(sink[n + 2]).type = <<"complete">>
        /\ sink[n + 3].op = "complete"

C10_Witness ==
  /\ pc = "done"
  /\ promise.state = "resolved"
  /\ Len(delivered) >= 2
  /\ promise.at = Len(delivered)
  /\ sink[Len(sink)].op = "complete"

\* C11: a subscription that has settled never has its timer armed: every
\* settlement other than the timeout itself (state event, connect failure,
\* read error, end of the stream) leaves the timer cleared.
C11_TimerCancelledWhenSettled ==
  /\ promise.state # "pending" => timeoutId # "armed"
  /\ promise.by \in {"event", "fetch", "readError", "done"} =>
       timeoutId = "cleared"

C11_Witness ==
  /\ promise.by = "readError"
  /\ relay = "errored"
  /\ timeoutId = "cleared"

\* C12: once the subscription has settled the relay neither holds the body
\* of the feed open nor has a read pending on it.
C12_ConnectionReleasedWhenSettled ==
  promise.state # "pending" => relay \notin {"reading", "unread"}

\* The remote run was created: the endpoint answered with a run id.
RemoteRunCreated ==
  /\ creation.response.ok
  /\ creation.response.json
  /\ creation.response.run_id \notin {"undefined", "null", ""}

\* createTask has been called and has returned or thrown.
CreateSettled == creation.calls = 1 /\ pc # "creating"

\* C13: once the remote run is created, createTask returns its run id
\* whatever the file logger does, and no error of the logger reaches the sink.
C13_LoggerFailureNeverFailsCreate ==
  (CreateSettled /\ RemoteRunCreated) =>
    /\ creation.ok
    /\ creation.runId = creation.response.run_id
    /\ ~creation.logThrown
    /\ \A i \in DOMAIN sink : sink[i].op # "error" \/ promise.state = "rejected"

\* C14: without a credential createTask throws a ConfigurationError, not a
\* TaskCreationError, without having issued any request, and streamTask
\* terminates the sink with that error.
C14_NoCredentialNoRequest ==
  (~apiKey /\ creation.calls >= 1) =>
    /\ ~creation.ok
    /\ creation.error = ConfigurationError
    /\ creation.error.name # "TaskCreationError"
    /\ creation.requests = 0
    /\ pc = "done"
    /\ sink[Len(sink)].op = "error"
    /\ sink[Len(sink)].err = ConfigurationError

C14_Witness ==
  /\ ~apiKey
  /\ creation.calls = 1
  /\ creation.requests = 0
  /\ sink # <<>>

\* C15: with a credential, createTask returns only the non-empty run_id of a
\* success response; a non-success status throws a TaskCreationError with
\* that status code and the body in its message, a missing or empty run_id
\* throws a TaskCreationError, a transport error is wrapped into one; nothing
\* but a TaskCreationError is thrown.
C15_CreateOutcomes ==
  (apiKey /\ CreateSettled) =>
    LET r == creation.response
    IN  /\ creation.ok =>
             /\ RemoteRunCreated
             /\ creation.runId = r.run_id
             /\ creation.runId \notin {"undefined", "null", ""}
        /\ ~creation.ok => creation.error.name = "TaskCreationError"
        /\ (r.kind = "http" /\ ~r.ok) =>
             /\ ~creation.ok
             /\ creation.statusCode = r.status
             /\ r.status = 500 => creation.error.message =
                  "Failed to create task: 500 Internal Server Error - oops"
             /\ r.status = 429 => creation.error.message =
                  "Failed to create task: 429 Too Many Requests - slow down"
        /\ (r.ok /\ r.json /\ r.run_id \in {"undefined", ""}) =>
             /\ ~creation.ok
             /\ creation.error.message =
                  "Failed to create task: No run ID returned"
        /\ r.kind = "transport" =>
             /\ ~creation.ok
             /\ creation.error.message =
                  "Unexpected error creating task: fetch failed"

C15_Witness ==
  /\ apiKey
  /\ CreateSettled
  /\ creation.response.kind = "transport"
  /\ creation.error.name = "TaskCreationError"

\* C16: when createTask fails, the relay is never subscribed, no connection
\* to the feed is opened, no 'connected' event is emitted, and the sink gets
\* the error event followed by error() with the error createTask threw.
C16_CreateFailureEndsRun ==
  (CreateSettled /\ ~creation.ok) =>
    /\ pc = "done"
    /\ subscription = NoSubscription
    /\ relay = "idle"
    /\ promise = PendingPromise
    /\ \A i \in DOMAIN sink :
         sink[i].op = "next" => Carried(sink[i]).type # <<"connected">>
    /\ Len(sink) = 2
    /\ sink[2].op = "error"
    /\ sink[2].err = creation.error

C16_Witness ==
  /\ CreateSettled
  /\ ~creation.ok
  /\ creation.response.ok
  /\ creation.response.run_id = ""
  /\ sink[Len(sink)].op = "error"

\* C17: on a run whose relay resolved, the sink got the 'connected' event
\* first, emitted after createTask returned the run id and before
\* streamParallelEvents was called; then one next per event handed to
\* onEvent; then the 'complete' event; then complete() as the last call.
C17_CallSequenceOnResolve ==
  (pc = "done" /\ promise.state = "resolved") =>
    LET n == Len(delivered)
    IN  /\ creation.ok /\ runId = creation.runId
        /\ sink[1].op = "next" /\ Carried(sink[1]).type = <<"connected">>
        /\ subscription.calls = 1
        /\ subscription.sinkLen = 1
        /\ Len(sink) = n + 3
        /\ \A i \in 1..n :
             /\ sink[i + 1].op = "next"
             /\ Carried(sink[i + 1]) = delivered[i]
        /\ sink[n + 2].op = "next"
        /\ Carried(sink[n + 2]) =
             [type |-> <<"complete">>, data |-> [message |-> CompletionMessage]]
        /\ sink[n + 3].op = "complete"
        /\ \A i \in 1..(n + 2) : sink[i].op = "next"

C17_Witness ==
  /\ pc = "done"
  /\ promise.state = "resolved"
  /\ subscription.sinkLen = 1
  /\ Len(delivered) = 1
  /\ Len(sink) = 4

\* A run of streamTask that ended in its catch block, and the error caught.
RunFailed == pc = "done" /\ promise.state # "resolved"
Caught ==
  IF promise.state = "rejected" THEN promise.error
  ELSE IF creation.calls = 1 THEN creation.error
  ELSE PlainError("bad config")

\* C18: when the relay rejects or anything in streamTask throws, the sink
\* gets the 'error' event with the message of the error, immediately
\* followed by error() with that error, and neither a 'complete' event nor
\* complete().
C18_FailureSequence ==
  RunFailed =>
    /\ \E k \in 2..Len(sink) :
         /\ sink[k].op = "error"
         /\ sink[k].err = Caught
         /\ sink[k - 1].op = "next"
         /\ Carried(sink[k - 1]) =
              [type |-> <<"error">>, data |-> [error |-> Caught.message]]
    /\ \A i \in DOMAIN sink :
         /\ sink[i].op # "complete"
         /\ sink[i].op = "next" => Carried(sink[i]).type # <<"complete">>

C18_Witness ==
  /\ RunFailed
  /\ promise.by = "done"
  /\ Len(delivered) >= 1
  /\ sink[Len(sink)].op = "error"
  /\ sink[Len(sink)].err.message = StreamEndedMessage

\* C19: nothing is retried within one run: createTask is called at most once
\* and posts at most one task run, streamParallelEvents is called at most
\* once and opens at most one connection, for the run id createTask
\* returned, and it feeds the one sink of the run.
C19_NothingRetried ==
  /\ creation.calls <= 1
  /\ creation.requests <= 1
  /\ subscription.calls <= 1
  /\ subscription.connections <= 1
  /\ subscription.calls = 1 =>
       /\ creation.ok
       /\ subscription.runId = creation.runId
       /\ subscription.runId = runId
  /\ relay # "idle" => subscription.connections = 1
  /\ TerminalCalls <= 1

C19_Witness ==
  /\ pc = "done"
  /\ relay = "errored"
  /\ creation.requests = 1
  /\ subscription.calls = 1
  /\ subscription.connections = 1

\* C20: when the connection attempt fails (non-success status, null body,
\* fetch error) the subscription is rejected with an error that has a
\* message, the error of the attempt unless the timer had already rejected
\* it; nothing is read, no event is handed to onEvent and no second
\* connection is attempted.
C20_ConnectFailureRejects ==
  relay = "failed" =>
    /\ promise.state = "rejected"
    /\ promise.by \in {"fetch", "timer"}
    /\ promise.error.message # ""
    /\ promise.by = "fetch" =>
         promise.error.message \in
           { "HTTP error! status: 500 Internal Server Error",
             "Response body is null", "fetch failed" }
    /\ promise.by = "timer" => timeoutId = "fired"
    /\ feed = <<>> /\ ~streamDone
    /\ delivered = <<>> /\ eventCount = 0
    /\ subscription.connections = 1

C20_Witness ==
  /\ relay = "failed"
  /\ promise.by = "fetch"
  /\ promise.error.message = "Response body is null"
  /\ pc = "done"

\* C21: once a terminal state event (completed or failed) has settled the
\* subscription, no further event is handed to onEvent: the terminal event
\* is the last event delivered.
C21_NothingAfterTerminalEvent ==
  promise.by = "event" => Len(delivered) = promise.at

RECURSIVE LastSuccess(_)
\* The document of the most recent request that returned; null if none did.
LastSuccess(history) ==
  IF history = <<>> THEN NullStatus
  ELSE IF history[Len(history)].ok THEN history[Len(history)].doc
  ELSE LastSuccess(SubSeq(history, 1, Len(history) - 1))

\* C22: pollFindAllStatus never rejects, and what it returns is the most
\* recent status document it fetched (null if no request succeeded), also
\* when the last allotted attempt fails or the attempts run out.
C22_PollNeverRejects ==
  /\ poller.pc # "rejected"
  /\ poller.pc = "returned" => poller.result = LastSuccess(poller.history)

C22_Witness ==
  /\ poller.pc = "returned"
  /\ poller.maxAttempts = 3
  /\ Len(poller.history) = 3
  /\ poller.history[2].ok
  /\ ~poller.history[3].ok
  /\ poller.result = StatusDoc("running", "true")

\* A fetched document that ends the polling.
TerminalEntry(h) ==
  /\ h.ok
  /\ ~h.doc.isNull
  /\ \/ h.doc.status \in {"completed", "failed"}
     \/ h.doc.is_active = "false"

C23_FetchesBounded ==
  /\ poller.fetches <= poller.maxAttempts
  /\ poller.fetches =
       Len(poller.history) + (IF poller.pc = "fetching" THEN 1 ELSE 0)
  /\ \A k \in DOMAIN poller.history :
       TerminalEntry(poller.history[k]) =>
         /\ k = Len(poller.history)
         /\ poller.pc = "returned"
         /\ poller.result = poller.history[k].doc
  /\ ( /\ poller.pc = "returned"
       /\ \A k \in DOMAIN poller.history : ~TerminalEntry(poller.history[k]) )
       => poller.fetches = poller.maxAttempts
  /\ ( /\ poller.pc = "returned"
       /\ poller.maxAttempts > 0
       /\ \A k \in DOMAIN poller.history :
            poller.history[k] = [ok |-> TRUE, doc |-> StatusDoc("running", "true")] )
       => poller.result = StatusDoc("running", "true")

\* C23: pollFindAllStatus terminates, after at most maxAttempts status
\* requests; it returns at the first document that is completed, failed or
\* not active, and when every answer is {running, active} it makes exactly
\* maxAttempts requests and returns the last of those documents.
C23_PollTerminatesWithinBudget ==
  [](C23_FetchesBounded) /\ <>(poller.pc = "returned")

C23_Witness ==
  /\ poller.pc = "returned"
  /\ poller.maxAttempts = 3
  /\ poller.fetches = 3
  /\ \A k \in 1..3 :
       poller.history[k] = [ok |-> TRUE, doc |-> StatusDoc("running", "true")]
  /\ poller.result = StatusDoc("running", "true")

RECURSIVE PreviousStatus(_, _)
\* The status string observed by the last poll before poll k that yielded a
\* document ("null" if there was none).
PreviousStatus(polls, k) ==
  IF k = 1 THEN "null"
  ELSE IF polls[k - 1].ok
    THEN (IF polls[k - 1].doc.status = "undefined" THEN "unknown"
          ELSE polls[k - 1].doc.status)
  ELSE PreviousStatus(polls, k - 1)

\* C24: in streamRun a poll whose status string equals the one observed
\* before emits a status_update only when the poll counter is a multiple of
\* 5, a poll whose status string differs emits exactly one, and no poll
\* emits more than one (a failed poll emits none).
C24_StatusUpdateOnChangeOrHeartbeat ==
  \A k \in DOMAIN findAll.polls :
    LET e == findAll.polls[k]
        cur == IF e.doc.status = "undefined" THEN "unknown" ELSE e.doc.status
    IN  /\ e.count = k
        /\ e.updates \in {0, 1}
        /\ ~e.ok => e.updates = 0
        /\ (e.ok /\ cur # PreviousStatus(findAll.polls, k)) => e.updates = 1
        /\ (e.ok /\ cur = PreviousStatus(findAll.polls, k)) =>
             (e.updates = 1 <=> k % 5 = 0)

C24_Witness ==
  /\ Len(findAll.polls) = 5
  /\ \A k \in 1..5 : findAll.polls[k].ok
  /\ \A k \in 1..5 : findAll.polls[k].doc = StatusDoc("running", "true")
  /\ findAll.polls[5].updates = 1
  /\ StatusUpdates(findAll.out) = 2

\* A poll of streamRun that observed a terminal status.
TerminalPoll(e) ==
  /\ e.ok
  /\ \/ e.doc.status \in {"completed", "failed"}
     \/ e.doc.is_active = "false"

\* C25: when streamRun observes a terminal status it requests the result
\* document exactly once; whether that request succeeds ('complete' with
\* the results) or fails ('complete' with the last status only), the sink is
\* completed and never errored.
C25_OneResultFetchThenComplete ==
  LET n == Len(findAll.polls)
      observed == n > 0 /\ TerminalPoll(findAll.polls[n])
      m == Len(findAll.out)
  IN  /\ findAll.resultFetches = (IF observed THEN 1 ELSE 0)
      /\ \A k \in 1..(n - 1) : ~TerminalPoll(findAll.polls[k])
      /\ (observed /\ findAll.pc = "done") =>
           /\ findAll.resultOutcome \in {"fetched", "failed"}
           /\ findAll.out[m].op = "complete"
           /\ findAll.out[m - 1].op = "next"
           /\ findAll.out[m - 1].type = "complete"
           /\ findAll.resultOutcome = "fetched" =>
                findAll.out[m - 1].data.results = "candidates"
           /\ findAll.resultOutcome = "failed" =>
                /\ findAll.out[m - 1].data.results = "none"
                /\ findAll.out[m - 1].data.status = findAll.polls[n].doc
           /\ \A i \in 1..m : findAll.out[i].op # "error"

C25_Witness ==
  /\ findAll.pc = "done"
  /\ findAll.resultOutcome = "failed"
  /\ findAll.resultFetches = 1
  /\ Len(findAll.polls) >= 2
  /\ findAll.out[Len(findAll.out)].op = "complete"

\* C26: streamRun makes at most ceil(maxWaitSeconds / pollInterval) status
\* requests, and when the wait is used up without a terminal status the
\* sink gets 'timeout' followed by complete() and no error(), also when
\* every status request failed.
C26_PollingBudget ==
  LET n == Len(findAll.polls)
      m == Len(findAll.out)
  IN  /\ findAll.statusFetches <= (findAll.maxWaitSeconds + 1) \div 2
      /\ findAll.statusFetches =
           n + (IF findAll.pc = "polling" THEN 1 ELSE 0)
      /\ ( /\ findAll.pc = "done"
           /\ findAll.resultFetches = 0
           /\ \E i \in 1..m : findAll.out[i].type = "connected" ) =>
           /\ findAll.out[m].op = "complete"
           /\ findAll.out[m - 1].op = "next"
           /\ findAll.out[m - 1].type = "timeout"
           /\ \A i \in 1..m : findAll.out[i].op # "error"

C26_Witness ==
  /\ findAll.pc = "done"
  /\ findAll.maxWaitSeconds = 3
  /\ Len(findAll.polls) = 2
  /\ \A k \in 1..2 : ~findAll.polls[k].returned
  /\ findAll.out[Len(findAll.out)].op = "complete"
  /\ findAll.out[Len(findAll.out) - 1].type = "timeout"

\* C27: streamComplete with an observer makes exactly one terminal call on
\* the sink, complete() or error(), whatever the ingest, create, status and
\* result requests do: none while it runs, one when it has finished, and
\* that one is the last call on the sink.
C27_FindAllOneTerminalCall ==
  findAll.entry = "streamComplete" =>
    LET m == Len(findAll.out)
        terminal == {i \in 1..m : findAll.out[i].op \in {"complete", "error"}}
    IN  /\ findAll.pc # "done" => terminal = {}
        /\ findAll.pc = "done" => terminal = {m}

C27_Witness ==
  /\ findAll.entry = "streamComplete"
  /\ findAll.needIngest
  /\ findAll.pc = "done"
  /\ findAll.statusFetches = 0
  /\ findAll.out[Len(findAll.out)].op = "error"
  /\ findAll.out[1].type = "ingest"

\* The log files that exist.
LogFiles == {p \in LogPaths : fileLog.files[p].exists}

\* C28: for a run handle at most one log file is ever created, and every
\* entry written for it is in that file, however the createRunLog and
\* logEvent calls interleave.
C28_OneLogFilePerRun ==
  /\ Cardinality(LogFiles) <= 1
  /\ \A c \in LogCalls :
       fileLog.calls[c].appended =>
         /\ fileLog.logFileMap # NoPath
         /\ \E i \in DOMAIN fileLog.files[fileLog.logFileMap].entries :
              fileLog.files[fileLog.logFileMap].entries[i] = c

\* C29: no call of createRunLog or logEvent ends in a rejection.
C29_LoggerNeverThrows ==
  \A c \in LogCalls : fileLog.calls[c].pc # "rejected"

\* ---------------------------------------------------------------- C30
RECURSIVE Replay(_, _, _)
\* The run i alone: its first n callbacks applied to a new run.
Replay(i, h, n) ==
  IF n = 0 THEN NewRun ELSE ApplyStep(i, Replay(i, h, n - 1), h[n])

\* The event data the feed of run i can carry.
RunValues(i) == {DocValue(d) : d \in RunDocs(i)}

\* The relayed state events of a sink.
Relayed(s) ==
  {k \in 1..Len(s) : s[k].op = "next" /\ Carried(s[k]).type = StateType}

\* The terminal calls made on a sink.
Terminals(s) == {k \in 1..Len(s) : s[k].op \in {"complete", "error"}}

\* C30: concurrent streamTask calls are independent: each run is in the
\* state its own callbacks alone would have put it in, whatever the other
\* run did in between, it relays only state events of its own feed, and
\* each run that settled made exactly one terminal call on its own sink.
C30_RunsIndependent ==
  \A i \in RunIds :
    LET R == runs.run[i]
    IN  /\ R = Replay(i, R.history, Len(R.history))
        /\ \A k \in Relayed(R.st.sink) :
             Carried(R.st.sink[k]).data \in RunValues(i)
        /\ Cardinality(Terminals(R.st.sink)) = IF R.pc = "done" THEN 1 ELSE 0

\* Both runs are over, their callbacks interleaved: one relayed a state
\* event and completed, the other failed after the first had started.
C30_Witness ==
  /\ \A i \in RunIds : runs.run[i].pc = "done"
  /\ runs.run[1].st.promise.state = "resolved"
  /\ runs.run[2].st.promise.state = "rejected"
  /\ Relayed(runs.run[1].st.sink) # {}
  /\ Relayed(runs.run[2].st.sink) # {}
  /\ runs.logFileMap = {RunHandle(1), RunHandle(2)}

\* ---------------------------------------------------------------- C40
\* C40: the has-completed flag of the relay tracks settlement: in every
\* state in which the promise of the subscription has been resolved or
\* rejected the flag is true, whatever settled it (completed, failed,
\* timeout, stream ended without result, connect failure, read error,
\* missing credential).
C40_FlagTracksSettlement == promise.state # "pending" => hasCompleted

\* ---------------------------------------------------------------- C38
\* C38: text received after the last newline is never parsed. When the
\* reader reports done while the buffer still holds an unterminated line,
\* even a complete terminal state data line, nothing is handed to onEvent
\* for it, the subscription, if still pending, is rejected with 'Stream
\* ended without result', and nothing is delivered afterwards.
C38_TrailingLineDiscarded ==
  [][ /\ (~streamDone /\ streamDone' /\ buffer # <<>>)
         => /\ delivered' = delivered
            /\ sink' = sink
            /\ finalResult' = finalResult
            /\ promise.state = "pending"
                 => /\ promise'.state = "rejected"
                    /\ promise'.error = PlainError(StreamEndedMessage)
      /\ streamDone => delivered' = delivered ]_vars

\* The stream ended on an unterminated completed state event: it was not
\* delivered and the subscription was rejected.
C38_Witness ==
  /\ streamDone
  /\ currentEventType = StateType
  /\ buffer = <<DataPrefix, DocCompletedTopX, "}">>
  /\ delivered = <<>>
  /\ promise.state = "rejected"
  /\ promise.error.message = StreamEndedMessage

\* ---------------------------------------------------------------- C37
\* The complete lines among the bytes the reads have delivered.
CompleteLines ==
  LET ls == Split(Consumed, <<>>, <<>>) IN SubSeq(ls, 1, Len(ls) - 1)

\* The positions of the data lines that carry valid JSON.
GoodDataLines(ls) ==
  {j \in 1..Len(ls) : StartsWith(ls[j], DataPrefix) /\ ~Malformed(ls[j])}

\* The type named by the last 'event: ' line before line j, 'message' when
\* there is none.
TypeBefore(ls, j) ==
  LET evs == {i \in 1..(j - 1) : StartsWith(ls[i], EventPrefix)}
  IN  IF evs = {} THEN MessageType
      ELSE Trim(Tail(ls[CHOOSE i \in evs : \A i2 \in evs : i2 <= i]))

\* The position of the k-th data line with valid JSON.
KthGood(ls, k) ==
  CHOOSE j \in GoodDataLines(ls) :
    Cardinality({i \in GoodDataLines(ls) : i <= j}) = k

\* C37: the type attached to every delivered event is the value of the most
\* recent 'event: ' line received on the connection, 'message' before the
\* first one; neither a blank line nor a delivered data line resets it, so a
\* data line without an event line of its own inherits the type of the
\* previous event, and a terminal state event so inherited settles the
\* subscription.
C37_TypeIsLastEventLine ==
  relay \in {"reading", "unread", "closed", "errored"} =>
    LET ls == CompleteLines
    IN  /\ Len(delivered) = Cardinality(GoodDataLines(ls))
        /\ \A k \in 1..Len(delivered) :
             delivered[k].type = TypeBefore(ls, KthGood(ls, k))
        /\ promise.by = "event" => delivered[promise.at].type = StateType

\* A second data line follows a delivered data line without an event line
\* of its own: it was delivered as a state event and settled the
\* subscription.
C37_Witness ==
  /\ Len(delivered) = 2
  /\ promise.by = "event"
  /\ promise.at = 2
  /\ delivered[1].type = StateType
  /\ delivered[2].type = StateType
  /\ Cardinality({i \in 1..Len(CompleteLines) :
                    StartsWith(CompleteLines[i], EventPrefix)}) = 1

\* ---------------------------------------------------------------- C36
\* The complete lines among the given bytes.
LinesOf(bytes) ==
  LET ls == Split(bytes, <<>>, <<>>) IN SubSeq(ls, 1, Len(ls) - 1)

\* The event is a state event that ends the run.
TerminalEvent(e) ==
  /\ e.type = StateType
  /\ \/ e.data.status = "completed" /\ e.data.output # "null"
     \/ e.data.status = "failed"

\* The terminal events among the delivered ones whose callback returned.
Settling(st) ==
  {k \in 1..Len(st.delivered) :
     TerminalEvent(st.delivered[k]) /\ ~Throws(st, st.delivered[k])}

\* C36: an exception thrown by onEvent never rejects the subscription and
\* never stops the read loop: every data line received is still handed to
\* onEvent. The terminal-state detection of the event whose callback threw
\* is skipped: the subscription is settled by the first terminal state event
\* whose callback returned, and by no event when there is none.
C36_CallbackExceptionSwallowed ==
  direct.relay \in {"reading", "unread", "closed"} =>
    LET st == direct.st
        received == SubSeq(direct.feed, 1, Len(direct.feed) - Len(direct.wire))
    IN  /\ Len(st.delivered) = Cardinality(GoodDataLines(LinesOf(received)))
        /\ st.promise.state = "rejected"
             => st.promise.error.message
                  \in {TimeoutMessage, StreamEndedMessage, "boom", "Task failed"}
        /\ st.promise.by = "event"
             => /\ st.promise.at \in Settling(st)
                /\ \A k \in Settling(st) : st.promise.at <= k
        /\ st.promise.state = "pending" => Settling(st) = {}
        /\ Len(st.sink) =
             Cardinality({k \in 1..Len(st.delivered) :
                            ~Throws(st, st.delivered[k])})

\* The callback threw on a completed state event: the event after it was
\* still delivered, and the stream ended without the subscription having
\* been resolved.
C36_Witness ==
  /\ direct.relay = "closed"
  /\ Len(direct.st.delivered) >= 2
  /\ TerminalEvent(direct.st.delivered[1])
  /\ direct.st.delivered[1].data.status = "completed"
  /\ Throws(direct.st, direct.st.delivered[1])
  /\ direct.st.sink # <<>>
  /\ direct.st.promise.by = "done"
  /\ direct.st.promise.error.message = StreamEndedMessage

\* ---------------------------------------------------------------- C33
\* The k-th attempt of pollTaskResult raised a fatal error: one whose
\* message names none of timeout, not ready, still processing, 404, not
\* found.
FatalAttempt(k) ==
  /\ taskPoll.history[k].kind = "error"
  /\ ~StillProcessing(taskPoll.history[k].message)

\* C33: pollTaskResult throws when an attempt is the last one or when its
\* error is fatal: a fatal error, also one raised on an attempt that is not
\* the last, is thrown to the caller at once and no further attempt is made.
C33_FatalErrorThrownAtOnce ==
  \A k \in 1..Len(taskPoll.history) :
    FatalAttempt(k) =>
      /\ taskPoll.pc = "thrown"
      /\ taskPoll.result = taskPoll.history[k]
      /\ taskPoll.calls = k

\* ---------------------------------------------------------------- C34
\* The attempt got a response that has an output.
HasOutput(e) == e.kind = "response" /\ e.output # "undefined"

C34_Bounded ==
  LET h == taskPoll.history
      n == Len(h)
  IN  /\ taskPoll.calls <= taskPoll.maxAttempts
      /\ n <= taskPoll.calls
      /\ \A k \in 1..(n - 1) : ~HasOutput(h[k])
      /\ (n > 0 /\ HasOutput(h[n]))
           => taskPoll.pc = "returned" /\ taskPoll.result = h[n]
      /\ (n > 0 /\ n = taskPoll.maxAttempts /\ h[n].kind = "error")
           => taskPoll.pc = "thrown" /\ taskPoll.result = h[n]

\* C34: pollTaskResult ends after at most maxAttempts calls of
\* taskRun.result: it stops at the first response that has an output and
\* returns that response, and when the last attempt raises an error it
\* throws that error instead of returning.
C34_TaskPollTerminates ==
  /\ [](C34_Bounded)
  /\ <>(taskPoll.pc \in {"returned", "thrown"})

\* The second of three attempts, after an error, got the output.
C34_Witness ==
  /\ taskPoll.pc = "returned"
  /\ taskPoll.maxAttempts >= 3
  /\ taskPoll.calls = 2
  /\ taskPoll.history[1].kind = "error"
  /\ taskPoll.result = TaskResponse("X")

\* ---------------------------------------------------------------- C35
\* C35: when every attempt within the budget returns a response without
\* output, pollTaskResult returns the last of these responses instead of
\* raising, and the research tool reports success with 'No research results
\* found.'; the 'Task timeout' error is raised only when no response object
\* was ever obtained.
C35_ExhaustionReturnsLastResponse ==
  LET h == taskPoll.history
      n == Len(h)
  IN  /\ ( /\ taskPoll.pc \in {"returned", "thrown"}
           /\ n > 0
           /\ \A k \in 1..n : h[k].kind = "response" /\ ~HasOutput(h[k]) )
         => /\ taskPoll.pc = "returned"
            /\ n = taskPoll.maxAttempts
            /\ taskPoll.result = h[n]
            /\ taskPoll.report.success = "true"
            /\ taskPoll.report.research = "No research results found."
      /\ (taskPoll.pc = "thrown" /\ taskPoll.result = TaskTimeoutError)
           => \A k \in 1..n : h[k].kind # "response"

\* The budget of at least two attempts was used up by responses without
\* output and the tool reported success.
C35_Witness ==
  /\ taskPoll.pc = "returned"
  /\ taskPoll.maxAttempts >= 2
  /\ Len(taskPoll.history) = taskPoll.maxAttempts
  /\ \A k \in 1..Len(taskPoll.history) :
       taskPoll.history[k] = TaskResponse("undefined")
  /\ taskPoll.report.success = "true"
  /\ taskPoll.report.research = "No research results found."

\* ---------------------------------------------------------------- C39
\* A poll of streamRun that observed a run that failed or is not active
\* any more.
FailurePoll(e) ==
  /\ e.ok
  /\ e.doc.status # "completed"
  /\ e.doc.status = "failed" \/ e.doc.is_active = "false"

\* C39: in streamRun a polled status of "failed", or an is_active flag of
\* false, is handled like "completed": the result document is requested,
\* a 'complete' event is emitted and the sink is ended with complete(); the
\* failure of the remote run never produces an error event or error().
C39_FailureHandledAsCompleted ==
  LET n == Len(findAll.polls)
      m == Len(findAll.out)
  IN  (n > 0 /\ FailurePoll(findAll.polls[n])) =>
        /\ findAll.pc \in {"fetchingResult", "done"}
        /\ findAll.resultFetches = 1
        /\ findAll.held = findAll.polls[n].doc
        /\ \A i \in 1..m :
             /\ findAll.out[i].op # "error"
             /\ findAll.out[i].type # "error"
        /\ findAll.pc = "done" =>
             /\ findAll.resultOutcome \in {"fetched", "failed"}
             /\ findAll.out[m].op = "complete"
             /\ findAll.out[m - 1].type = "complete"

\* A run reported as failed ended the stream with the fetched results and
\* complete().
C39_Witness ==
  /\ findAll.pc = "done"
  /\ Len(findAll.polls) >= 2
  /\ findAll.polls[Len(findAll.polls)].doc.status = "failed"
  /\ findAll.resultOutcome = "fetched"
  /\ findAll.out[Len(findAll.out)].op = "complete"
  /\ findAll.out[Len(findAll.out) - 1].type = "complete"

\* ---------------------------------------------------------------- C32
\* C32: while a streaming request is open and its remote task has not
\* reached a terminal state, the client is sent a keep-alive ping at least
\* every 30 seconds, also while the feed is silent. The timer of the relay
\* fires 600 seconds after 'connected' was sent: when it ends a run whose
\* feed delivered nothing, the sink has by then received, after 'connected',
\* one ping for each 30 seconds of the wait.
C32_KeepAliveWhileQuiet ==
  (pc = "streaming" /\ promise.by = "timer" /\ delivered = <<>>) =>
    Len(sink) >= 1 + StreamTimeoutSeconds \div KeepAliveSeconds

\* ---------------------------------------------------------------- C31
\* The position of call c among the calls made on the logger.
IssuedAt(c) ==
  CHOOSE k \in DOMAIN fileLog.issued : fileLog.issued[k] = c

\* C31: in the log file of a run the entries are in lifecycle order: the
\* RUN_START header first, then the entries in the order in which the calls
\* that wrote them were made (TASK_CREATED, SSE_STREAM_START, the SSE events
\* as received, the final entry), in every interleaving of the log writes
\* that are not awaited.
C31_LogEntriesInCallOrder ==
  \A p \in LogFiles :
    LET e == fileLog.files[p].entries
    IN  /\ e[1] = RunStart
        /\ \A i, j \in 2..Len(e) :
             i < j => IssuedAt(e[i]) < IssuedAt(e[j])

====
